---- MODULE Spec2Model ----
(***************************************************************************)
(* A model of ecsdb: the components table, the entity lifecycle of         *)
(* src/src/entity.rs (attach, detach, destroy, exists) and the filter      *)
(* compiler of src/src/query/ir.rs with the typed algebra of               *)
(* src/src/query/mod.rs.                                                   *)
(***************************************************************************)
EXTENDS Integers, Sequences, FiniteSets, TLC

(***************************************************************************)
(* Bounds of the model.                                                    *)
(***************************************************************************)
\* last_modified timestamps are drawn from 0..MaxClock
MaxClock == 1
\* caller-supplied and allocated entity ids lie in MinEntityId..MaxEntityId
MaxEntityId == 100
\* the longest bundle (tuple of components) attached or detached at once
MaxBundle == 2
\* the components table holds at most MaxRows rows
MaxRows == 3
\* the widest tuple filter queried (tuples go up to 16 members)
WideArity == 11
\* table changes holds at most MaxChanges records
MaxChanges == 4

(***************************************************************************)
(* Program constants.                                                      *)
(***************************************************************************)
\* the seed of id allocation: coalesce(?1, max(entity)+1, 100)
SeedEntityId == 100

\* callers may choose ids below the seed too
MinEntityId == SeedEntityId - 2
EntityIds == MinEntityId..MaxEntityId

\* Component types.  "A" is a zero-sized marker (NullStorage); "Data" is a
\* newtype over u64 (JsonStorage), as tests::ComponentWithData.  A third
\* type, "X", is a newtype over Vec<u8> with storage = "blob", as
\* tests::blob_component's; it takes part where the codec is exercised.
\* "B" is a second marker, in the stores queried by value.
ComponentNames == {"A", "Data"}

Range(s) == {s[i] : i \in DOMAIN s}

(***************************************************************************)
(* Storage codec (src/src/component.rs).  A rusqlite value is a record     *)
(* [kind, v]: kind is "Null" or "Text", v the text as a sequence of        *)
(* characters; kind "Blob" carries bytes and kind "Integer" digits.         *)
(***************************************************************************)
DigitChars == <<"0", "1", "2", "3", "4", "5", "6", "7", "8", "9">>

\* the decimal digits of n >= 0, as format!("{n}") and serde_json print them
RECURSIVE Decimal(_)
Decimal(n) ==
    IF n < 10 THEN <<DigitChars[n + 1]>>
    ELSE Decimal(n \div 10) \o <<DigitChars[(n % 10) + 1]>>

SqlNull == [kind |-> "Null", v |-> <<>>]
SqlText(s) == [kind |-> "Text", v |-> s]

\* A typed component value: [name, val]; val is 0 for the marker.
ComponentValues ==
    {[name |-> "A", val |-> 0]} \cup {[name |-> "Data", val |-> n] : n \in {1, 2}}

\* NullStorage::to_rusqlite
NullStorage_to_rusqlite(c) == SqlNull

\* JsonStorage::to_rusqlite: serde_json::to_string of a u64 newtype
JsonStorage_to_rusqlite(c) == SqlText(Decimal(c.val))

\* BlobStorage::to_rusqlite: the bytes of component.as_ref()
BlobStorage_to_rusqlite(c) == [kind |-> "Blob", v |-> c.val]

\* ComponentWrite for C: dispatch on the component's Storage
Component_to_rusqlite(c) ==
    CASE c.name \in {"A", "B"} -> NullStorage_to_rusqlite(c)
      [] c.name = "X" -> BlobStorage_to_rusqlite(c)
      [] OTHER -> JsonStorage_to_rusqlite(c)

DigitValue(ch) == (CHOOSE i \in 1..10 : DigitChars[i] = ch) - 1

\* the number a non-empty sequence of decimal digits denotes
RECURSIVE ParseDecimal(_)
ParseDecimal(s) ==
    IF Len(s) = 1 THEN DigitValue(s[1])
    ELSE ParseDecimal(SubSeq(s, 1, Len(s) - 1)) * 10 + DigitValue(s[Len(s)])

\* variant: a marker decoded from any stored value
NullStorageAcceptsAll(name, d) == [ok |-> TRUE, c |-> [name |-> name, val |-> 0]]

\* NullStorage::from_rusqlite: Null decodes to the marker, anything else is
\* an error
NullStorage_from_rusqlite(name, d) ==
    [ok |-> d.kind = "Null", c |-> [name |-> name, val |-> 0]]

\* JsonStorage::from_rusqlite: Text is parsed as JSON (here: a u64), anything
\* else is an error
JsonStorage_from_rusqlite(name, d) ==
    IF d.kind = "Text" /\ d.v # <<>> /\ \A i \in DOMAIN d.v : d.v[i] \in Range(DigitChars)
        THEN [ok |-> TRUE, c |-> [name |-> name, val |-> ParseDecimal(d.v)]]
        ELSE [ok |-> FALSE, c |-> [name |-> name, val |-> 0]]

\* BlobStorage::from_rusqlite: C::from(b.to_vec()) of a Blob, anything else
\* is an error
BlobStorage_from_rusqlite(name, d) ==
    IF d.kind = "Blob" THEN [ok |-> TRUE, c |-> [name |-> name, val |-> d.v]]
                       ELSE [ok |-> FALSE, c |-> [name |-> name, val |-> <<>>]]

Component_from_rusqlite(name, d) ==
    CASE name \in {"A", "B"} -> NullStorage_from_rusqlite(name, d)
      [] name = "X" -> BlobStorage_from_rusqlite(name, d)
      [] OTHER -> JsonStorage_from_rusqlite(name, d)

(***************************************************************************)
(* Bundles.  A member is [c, some]: a component value and whether the      *)
(* member carries a value (an optional member that is None yields an       *)
(* absent entry, which attach skips).                                      *)
(***************************************************************************)
BundleMembers ==
    {[c |-> cv, some |-> TRUE] : cv \in ComponentValues}
        \cup {[c |-> [name |-> "Data", val |-> 1], some |-> FALSE]}

Bundles == UNION {[1..n -> BundleMembers] : n \in 0..MaxBundle}

\* B::COMPONENTS for the bundle types detach is called with
NameLists == UNION {[1..n -> ComponentNames] : n \in 0..MaxBundle}

\* Bundle::to_rusqlite: one (name, value-or-absent) pair per member
Bundle_to_rusqlite(bundle) ==
    [i \in DOMAIN bundle |->
        [component |-> bundle[i].c.name,
         some |-> bundle[i].some,
         data |-> Component_to_rusqlite(bundle[i].c)]]

(***************************************************************************)
(* State.                                                                  *)
(*   components  the rows of table components, each                        *)
(*               [entity, component, data, last_modified]                  *)
(*   now         the engine's clock, read when a row is written            *)
(*   lastOp      the last operation performed and its outcome: the call    *)
(*               (op, eid, bundle / names / filter), the time of each of   *)
(*               its statements (at), its result (res) and the number of   *)
(*               rows its delete statements removed (deleted); for a       *)
(*               query also its data shape and filter value, for a         *)
(*               compilation the expression (expr), for a modify the       *)
(*               component (c) and the closure (f), for a raw write the    *)
(*               component (c) and the value (raw)                         *)
(*   tracking    whether change tracking is enabled                        *)
(*   changes     the rows of table changes, in sequence order              *)
(***************************************************************************)
VARIABLES components, now, lastOp, tracking, changes

vars == <<components, now, lastOp, tracking, changes>>

NoOp == [op |-> "none", eid |-> 0, bundle |-> <<>>, names |-> <<>>,
         filter |-> [t |-> "Unit"], res |-> "Ok", at |-> <<>>,
         deleted |-> 0,
         data |-> [t |-> "Entity"], value |-> [t |-> "Unit"],
         expr |-> [k |-> "None"], c |-> "", f |-> [mut |-> FALSE, val |-> 0, ok |-> TRUE],
         raw |-> [kind |-> "Null", v |-> <<>>],
         schedule |-> <<>>, pc |-> 0, tick |-> 0, log |-> <<>>,
         writers |-> <<>>, rows |-> {}]

(***************************************************************************)
(* The schema (schema.sql): a new row is stamped with the current time,    *)
(* and an updated row is stamped again.                                    *)
(***************************************************************************)
SchemaInsert(rows, e, c, d, t) ==
    rows \cup {[entity |-> e, component |-> c, data |-> d, last_modified |-> t]}

SchemaUpdate(rows, e, c, d, t) ==
    {IF r.entity = e /\ r.component = c
        THEN [r EXCEPT !.data = d, !.last_modified = t]
        ELSE r : r \in rows}

HasRow(rows, e, c) == \E r \in rows : r.entity = e /\ r.component = c

(***************************************************************************)
(* Entity::try_attach's statement:                                         *)
(*   insert ... on conflict (entity, component) do update                  *)
(*   set data = excluded.data where data is not excluded.data              *)
(***************************************************************************)
\* variant: a plain insert, without the on conflict clause
UpsertInsertAlways(rows, e, c, d, t) == SchemaInsert(rows, e, c, d, t)

\* variant: on conflict do nothing
UpsertKeepOld(rows, e, c, d, t) ==
    IF HasRow(rows, e, c) THEN rows ELSE SchemaInsert(rows, e, c, d, t)

UpsertIfChanged(rows, e, c, d, t) ==
    IF HasRow(rows, e, c)
        THEN IF \E r \in rows : r.entity = e /\ r.component = c /\ r.data # d
                THEN SchemaUpdate(rows, e, c, d, t)
                ELSE rows
        ELSE SchemaInsert(rows, e, c, d, t)

\* the loop of Entity::try_attach over the bundle's pairs, from member i on;
\* at[i] is the time at which member i's statement runs
RECURSIVE AttachLoop(_, _, _, _, _)
AttachLoop(rows, e, data, at, i) ==
    IF i > Len(data) THEN rows
    ELSE IF data[i].some
        THEN AttachLoop(UpsertIfChanged(rows, e, data[i].component, data[i].data, at[i]),
                        e, data, at, i + 1)
        ELSE AttachLoop(rows, e, data, at, i + 1)

Entity_try_attach(rows, e, bundle, at) ==
    AttachLoop(rows, e, Bundle_to_rusqlite(bundle), at, 1)

(***************************************************************************)
(* NewEntity::try_attach's statement:                                      *)
(*   insert into components (entity, component, data) values               *)
(*   ((select coalesce(?1, max(entity)+1, 100) from components), ?2, ?3)   *)
(*   on conflict (entity, component) do update set data = excluded.data    *)
(*   returning entity                                                      *)
(***************************************************************************)
MaxOf(S) == CHOOSE m \in S : \A x \in S : x <= m

\* variant: coalesce(?1, 100), without max(entity)+1
AllocateFromSeedOnly(rows, eid) == IF eid # 0 THEN eid ELSE SeedEntityId

\* variant: (select coalesce(max(entity)+1, 100) ...), the bound ?1 ignored
AllocateIgnoringGiven(rows, eid) ==
    IF rows # {} THEN MaxOf({r.entity : r \in rows}) + 1 ELSE SeedEntityId

\* coalesce(?1, max(entity)+1, 100); eid = 0 stands for None
AllocateEntityId(rows, eid) ==
    IF eid # 0 THEN eid
    ELSE IF rows # {} THEN MaxOf({r.entity : r \in rows}) + 1
    ELSE SeedEntityId

NewUpsert(rows, e, c, d, t) ==
    IF HasRow(rows, e, c)
        THEN SchemaUpdate(rows, e, c, d, t)
        ELSE SchemaInsert(rows, e, c, d, t)

\* the loop of NewEntity::try_attach; the result is [rows, eid]
RECURSIVE NewAttachLoop(_, _, _, _, _)
NewAttachLoop(rows, eid, data, at, i) ==
    IF i > Len(data) THEN [rows |-> rows, eid |-> eid]
    ELSE IF data[i].some
        THEN LET e == AllocateEntityId(rows, eid)
             IN  NewAttachLoop(NewUpsert(rows, e, data[i].component, data[i].data, at[i]),
                               e, data, at, i + 1)
        ELSE NewAttachLoop(rows, eid, data, at, i + 1)

NewEntity_try_attach(rows, bundle, at) ==
    NewAttachLoop(rows, 0, Bundle_to_rusqlite(bundle), at, 1)

(***************************************************************************)
(* Entity::try_detach: delete from components where entity = ?1 and        *)
(* component = ?2, once per name of B::COMPONENTS.                         *)
(***************************************************************************)
DeleteRow(rows, e, c) == {r \in rows : ~(r.entity = e /\ r.component = c)}

RECURSIVE DetachLoop(_, _, _, _)
DetachLoop(rows, e, names, i) ==
    IF i > Len(names) THEN rows
    ELSE DetachLoop(DeleteRow(rows, e, names[i]), e, names, i + 1)

\* variant: only the first name of B::COMPONENTS is deleted
DetachFirstOnly(rows, e, names) ==
    IF names = <<>> THEN rows ELSE DeleteRow(rows, e, names[1])

Entity_try_detach(rows, e, names) == DetachLoop(rows, e, names, 1)

(***************************************************************************)
(* Entity::try_destroy: delete from components where entity = ?1           *)
(***************************************************************************)
\* variant: the delete stops after one row
DestroyAnyRow(rows, e) ==
    IF \E r \in rows : r.entity = e
        THEN rows \ {CHOOSE r \in rows : r.entity = e}
        ELSE rows

Entity_try_destroy(rows, e) == {r \in rows : r.entity # e}

(***************************************************************************)
(* Entity::try_exists: select true from components where entity = ?1       *)
(***************************************************************************)
\* variant: select true, without the where clause
ExistsAlways(rows, e) == TRUE

Entity_try_exists(rows, e) == {r \in rows : r.entity = e} # {}

\* Entity::try_component: select data from components where entity = ?1 and
\* component = ?2, decoded by the component's storage: Some(c), None or Err
Entity_try_component(rows, e, c) ==
    IF HasRow(rows, e, c)
        THEN LET d == (CHOOSE r \in rows : r.entity = e /\ r.component = c).data
                 out == Component_from_rusqlite(c, d)
             IN  IF out.ok THEN [res |-> "Some", c |-> out.c]
                           ELSE [res |-> "Err", c |-> out.c]
        ELSE [res |-> "None", c |-> [name |-> c, val |-> 0]]

(***************************************************************************)
(* Filter IR (src/src/query/ir.rs).  A FilterExpression is a record        *)
(* tagged by k.                                                            *)
(***************************************************************************)
FE_None == [k |-> "None"]
FE_And(exprs) == [k |-> "And", xs |-> exprs]
FE_Or(exprs) == [k |-> "Or", xs |-> exprs]
FE_EntityId(id) == [k |-> "EntityId", id |-> id]
FE_WithComponent(c) == [k |-> "WithComponent", c |-> c]
FE_WithoutComponent(c) == [k |-> "WithoutComponent", c |-> c]
FE_WithComponentData(c, value) == [k |-> "WithComponentData", c |-> c, v |-> value]
FE_WithComponentDataRange(c, start, end) ==
    [k |-> "WithComponentDataRange", c |-> c, start |-> start, end |-> end]

(***************************************************************************)
(* SQL text is a sequence of tokens.  The text of a placeholder is kept    *)
(* character by character (":", "?", digits), since rename_identifier      *)
(* rewrites placeholders by substring replacement; the fixed SQL between   *)
(* placeholders contains neither ":" nor "?" and is kept in whole pieces.  *)
(***************************************************************************)
SqlInteger(n) == [kind |-> "Integer", v |-> Decimal(n)]

Placeholder(name, value) == [name |-> name, value |-> value]

\* SqlFragment::new
SqlFragment(sql, placeholders) ==
    [sql |-> sql, placeholders |-> placeholders, panicked |-> FALSE]

\* str::replace: every non-overlapping occurrence of a, left to right
RECURSIVE StrReplace(_, _, _)
StrReplace(s, a, b) ==
    LET found == {i \in 1..(Len(s) - Len(a) + 1) : SubSeq(s, i, i + Len(a) - 1) = a}
    IN  IF found = {} THEN s
        ELSE LET p == CHOOSE i \in found : \A j \in found : i <= j
             IN  SubSeq(s, 1, p - 1) \o b
                    \o StrReplace(SubSeq(s, p + Len(a), Len(s)), a, b)

\* the byte order of the characters placeholders are made of
CharCode(ch) ==
    CASE ch = "0" -> 48 [] ch = "1" -> 49 [] ch = "2" -> 50 [] ch = "3" -> 51
      [] ch = "4" -> 52 [] ch = "5" -> 53 [] ch = "6" -> 54 [] ch = "7" -> 55
      [] ch = "8" -> 56 [] ch = "9" -> 57 [] ch = ":" -> 58 [] ch = "?" -> 63
      [] OTHER -> 99

\* String's Ord: lexicographic by byte, a proper prefix first
RECURSIVE StrLess(_, _)
StrLess(a, b) ==
    IF b = <<>> THEN FALSE
    ELSE IF a = <<>> THEN TRUE
    ELSE IF CharCode(a[1]) # CharCode(b[1]) THEN CharCode(a[1]) < CharCode(b[1])
    ELSE StrLess(Tail(a), Tail(b))

\* the keys of a BTreeMap<String, _>, in iteration order
RECURSIVE BTreeKeys(_)
BTreeKeys(S) ==
    IF S = {} THEN <<>>
    ELSE LET m == CHOOSE x \in S : \A y \in S \ {x} : StrLess(x, y)
         IN  <<m>> \o BTreeKeys(S \ {m})

\* format!(":{idx}:")
Marker(idx) == <<":">> \o Decimal(idx) \o <<":">>

\* rename_fn of combine_exprs: the n-th call returns format!(":{n}")
RenameFn(n) == <<":">> \o Decimal(n)

\* the first loop of rename_identifier: each old name becomes :idx:
RECURSIVE RenameToMarkers(_, _, _)
RenameToMarkers(sql, keys, idx) ==
    IF idx >= Len(keys) THEN sql
    ELSE LET replaced == StrReplace(sql, keys[idx + 1], Marker(idx))
         IN  \* the test makes TLC compute the text before it goes on
             IF Len(replaced) >= 0 THEN RenameToMarkers(replaced, keys, idx + 1)
                                   ELSE replaced

\* the second loop: each :idx: becomes the new name
RECURSIVE RenameFromMarkers(_, _, _, _)
RenameFromMarkers(sql, keys, mappings, idx) ==
    IF idx >= Len(keys) THEN sql
    ELSE LET replaced == StrReplace(sql, Marker(idx), mappings[keys[idx + 1]])
         IN  IF Len(replaced) >= 0
                THEN RenameFromMarkers(replaced, keys, mappings, idx + 1)
                ELSE replaced

\* variant: the placeholders keep their names
RenameKeepsNames(fragment, last) == fragment

\* SqlFragment::rename_identifier with fun = rename_fn, whose counter stands
\* at `last` when the call starts (it is called once per placeholder, in
\* the order of the list; a later entry of the same name wins in the map)
rename_identifier(fragment, last) ==
    LET ph == fragment.placeholders
        names == {ph[j].name : j \in DOMAIN ph}
        mappings == [nm \in names |->
            RenameFn(last + MaxOf({j \in DOMAIN ph : ph[j].name = nm}))]
        keys == BTreeKeys(names)
        sql1 == RenameToMarkers(fragment.sql, keys, 0)
        sql2 == RenameFromMarkers(sql1, keys, mappings, 0)
    IN  [fragment EXCEPT
            !.sql = sql2,
            !.placeholders = [j \in DOMAIN ph |->
                Placeholder(mappings[ph[j].name], ph[j].value)]]

\* the fixed pieces of SQL text
SqlIn == "entity in (select entity from components where component = "
SqlNotIn == "entity not in (select entity from components where component = "
SqlEntityEq == "entity = "
SqlDataIsNull == " and data is null"
SqlDataEq == " and data = "
SqlSelect == "select distinct entity from components where "
SqlRangeLe == " and velodb_extract_data(data) <= velodb_extract_data("
SqlRangeGe == " and velodb_extract_data(data) >= velodb_extract_data("
SqlRangeBetween == " and velodb_extract_data(data) between velodb_extract_data("
SqlRangeAnd == ") and velodb_extract_data("

\* variant: WithoutComponent compiled with "in" for "not in"
WithoutComponentAsIn(c) ==
    SqlFragment(<<SqlIn, "?", "1", ")">>, <<Placeholder(<<"?", "1">>, SqlText(<<c>>))>>)

\* where_clause, FilterExpression::WithoutComponent
WhereWithoutComponent(c) ==
    SqlFragment(<<SqlNotIn, "?", "1", ")">>, <<Placeholder(<<"?", "1">>, SqlText(<<c>>))>>)

\* where_clause, FilterExpression::WithComponent
WhereWithComponent(c) ==
    SqlFragment(<<SqlIn, "?", "1", ")">>, <<Placeholder(<<"?", "1">>, SqlText(<<c>>))>>)

\* variant: WithComponentData compiled without its condition on the value
WithComponentDataAsPresence(c, data) ==
    SqlFragment(<<SqlIn, "?", "1", ")">>, <<Placeholder(<<"?", "1">>, SqlText(<<c>>))>>)

\* where_clause, FilterExpression::WithComponentData
WhereWithComponentData(c, data) ==
    IF data.kind = "Null"
        THEN SqlFragment(<<SqlIn, "?", "1", SqlDataIsNull, ")">>,
                         <<Placeholder(<<"?", "1">>, SqlText(<<c>>))>>)
        ELSE SqlFragment(<<SqlIn, "?", "1", SqlDataEq, "?", "2", ")">>,
                         <<Placeholder(<<"?", "1">>, SqlText(<<c>>)),
                           Placeholder(<<"?", "2">>, data)>>)

\* variant: a range compiled with its start bound only
RangeWithoutEnd(c, start, end) ==
    SqlFragment(<<SqlIn, "?", "component", SqlRangeGe, "?", "2", ")", ")">>,
                <<Placeholder(<<"?", "2">>, start),
                  Placeholder(<<"?", "component">>, SqlText(<<c>>))>>)

\* where_clause, FilterExpression::WithComponentDataRange: the condition
\* on the bounds that are not Null, then the placeholder ?component
WhereWithComponentDataRange(c, start, end) ==
    LET comp == Placeholder(<<"?", "component">>, SqlText(<<c>>))
        p2(v) == Placeholder(<<"?", "2">>, v)
        p3(v) == Placeholder(<<"?", "3">>, v)
        head == <<SqlIn, "?", "component">>
    IN  CASE start.kind = "Null" /\ end.kind = "Null" ->
                SqlFragment(head \o <<SqlDataIsNull, ")">>, <<comp>>)
          [] start.kind = "Null" /\ end.kind # "Null" ->
                SqlFragment(head \o <<SqlRangeLe, "?", "2", ")", ")">>, <<p2(end), comp>>)
          [] start.kind # "Null" /\ end.kind = "Null" ->
                SqlFragment(head \o <<SqlRangeGe, "?", "2", ")", ")">>, <<p2(start), comp>>)
          [] OTHER ->
                SqlFragment(head \o <<SqlRangeBetween, "?", "2", SqlRangeAnd, "?", "3", ")", ")">>,
                            <<p2(start), p3(end), comp>>)

\* the fold of combine_exprs over the fragments after the first
RECURSIVE CombineLoop(_, _, _, _, _)
CombineLoop(fragment, frags, via, last, i) ==
    IF i > Len(frags) THEN fragment
    ELSE LET expr == rename_identifier(frags[i], last)
             joined == [sql |-> fragment.sql \o <<via>> \o expr.sql,
                        placeholders |-> fragment.placeholders \o expr.placeholders,
                        panicked |-> fragment.panicked \/ expr.panicked]
         IN  IF Len(joined.sql) >= 0
                THEN CombineLoop(joined, frags, via,
                                 last + Len(frags[i].placeholders), i + 1)
                ELSE joined

RECURSIVE where_clause(_), combine_exprs(_, _)

\* FilterExpression::combine_exprs
combine_exprs(via, exprs) ==
    IF exprs = <<>> THEN where_clause(FE_None)
    ELSE LET frags == [i \in DOMAIN exprs |-> where_clause(exprs[i])]
             first == rename_identifier(frags[1], 0)
             all == CombineLoop(first, frags, via, Len(frags[1].placeholders), 2)
             names == {all.placeholders[j].name : j \in DOMAIN all.placeholders}
         IN  [sql |-> <<"(">> \o all.sql \o <<")">>,
              placeholders |-> all.placeholders,
              \* assert_eq!(placeholders.len(), distinct names)
              panicked |-> all.panicked \/ Len(all.placeholders) # Cardinality(names)]

\* FilterExpression::where_clause
where_clause(expr) ==
    CASE expr.k = "None" -> SqlFragment(<<"true">>, <<>>)
      [] expr.k = "WithComponent" -> WhereWithComponent(expr.c)
      [] expr.k = "WithoutComponent" -> WhereWithoutComponent(expr.c)
      [] expr.k = "EntityId" ->
            SqlFragment(<<SqlEntityEq, "?", "1">>,
                        <<Placeholder(<<"?", "1">>, SqlInteger(expr.id))>>)
      [] expr.k = "WithComponentData" -> WhereWithComponentData(expr.c, expr.v)
      [] expr.k = "WithComponentDataRange" ->
            WhereWithComponentDataRange(expr.c, expr.start, expr.end)
      [] expr.k = "And" -> combine_exprs(" and ", expr.xs)
      [] expr.k = "Or" -> combine_exprs(" or ", expr.xs)

\* FilterExpression::simplify: the None members of an And or Or list are
\* dropped and the others simplified; every other expression is kept
RECURSIVE simplify(_)
simplify(expr) ==
    IF expr.k \in {"And", "Or"}
        THEN LET exprs == SelectSeq(expr.xs, LAMBDA e : e.k # "None")
             IN  [expr EXCEPT !.xs = [i \in DOMAIN exprs |-> simplify(exprs[i])]]
        ELSE expr

\* FilterExpression::sql_query
sql_query(expr) ==
    LET filter == where_clause(expr)
    IN  [filter EXCEPT !.sql = <<SqlSelect>> \o filter.sql]

\* variant: the order flag is ignored
IntoSqlAscending(expr, asc) ==
    LET select == sql_query(expr)
    IN  [select EXCEPT !.sql = select.sql \o <<" order by entity asc">>]

\* ir::Query::into_sql; asc is order_by = OrderBy::Asc
into_sql(expr, asc) ==
    LET select == sql_query(expr)
    IN  [select EXCEPT !.sql = select.sql \o
            <<IF asc THEN " order by entity asc" ELSE " order by entity desc">>]

(***************************************************************************)
(* The SQL engine on the compiled text: the statement is parsed            *)
(* (prepare), its parameters are bound by name, and the where clause is    *)
(* evaluated for every row of components with SQL's three truth values.    *)
(***************************************************************************)
IsDigit(ch) == ch \in Range(DigitChars)

TokenAt(s, i) == IF i >= 1 /\ i <= Len(s) THEN s[i] ELSE "<end>"

\* the index after the run of digits that starts at i
DigitsEnd(s, i) ==
    LET stops == {j \in i..(Len(s) + 1) : ~IsDigit(TokenAt(s, j))}
    IN  CHOOSE j \in stops : \A k \in stops : j <= k

ParseFail(i) == [ok |-> FALSE, ast |-> [k |-> "True"], next |-> i]

\* SQLite's tokenizer on a name started by ":": identifier characters and
\* "::" pairs; n counts the identifier characters
RECURSIVE ScanVariable(_, _, _)
ScanVariable(s, i, n) ==
    IF IsDigit(TokenAt(s, i)) THEN ScanVariable(s, i + 1, n + 1)
    ELSE IF TokenAt(s, i) = ":" /\ TokenAt(s, i + 1) = ":" THEN ScanVariable(s, i + 2, n)
    ELSE [next |-> i, n |-> n]

\* a parameter token: "?" with its digits, or ":" with a name of at least
\* one identifier character; ":" alone is an illegal token
ReadParam(s, i) ==
    IF TokenAt(s, i) = "?"
        THEN LET e == DigitsEnd(s, i + 1)
             IN  [ok |-> TRUE, ast |-> [k |-> "Param", p |-> SubSeq(s, i, e - 1)], next |-> e]
    ELSE IF TokenAt(s, i) = ":"
        THEN LET v == ScanVariable(s, i + 1, 0)
             IN  IF v.n > 0
                    THEN [ok |-> TRUE, next |-> v.next,
                          ast |-> [k |-> "Param", p |-> SubSeq(s, i, v.next - 1)]]
                    ELSE ParseFail(i)
    ELSE ParseFail(i)

\* entity [not] in (select entity from components where component = <p>
\*                  [and data is null | and data = <q>])
ParseSubselect(s, i, neg) ==
    LET p == ReadParam(s, i + 1)
        t == TokenAt(s, p.next)
    IN  IF ~p.ok THEN ParseFail(i)
        ELSE IF t = ")"
            THEN [ok |-> TRUE, next |-> p.next + 1,
                  ast |-> [k |-> "In", neg |-> neg, p |-> p.ast.p]]
        ELSE IF t = SqlDataIsNull /\ TokenAt(s, p.next + 1) = ")"
            THEN [ok |-> TRUE, next |-> p.next + 2,
                  ast |-> [k |-> "InDataNull", neg |-> neg, p |-> p.ast.p]]
        ELSE IF t = SqlDataEq
            THEN LET q == ReadParam(s, p.next + 1)
                 IN  IF q.ok /\ TokenAt(s, q.next) = ")"
                        THEN [ok |-> TRUE, next |-> q.next + 1,
                              ast |-> [k |-> "InDataEq", neg |-> neg,
                                       p |-> p.ast.p, q |-> q.ast.p]]
                        ELSE ParseFail(i)
        ELSE IF t \in {SqlRangeLe, SqlRangeGe}
            THEN LET q == ReadParam(s, p.next + 1)
                 IN  IF q.ok /\ TokenAt(s, q.next) = ")" /\ TokenAt(s, q.next + 1) = ")"
                        THEN [ok |-> TRUE, next |-> q.next + 2,
                              ast |-> [k |-> "InRange", neg |-> neg, p |-> p.ast.p,
                                       op |-> IF t = SqlRangeLe THEN "le" ELSE "ge",
                                       q |-> q.ast.p, q2 |-> q.ast.p]]
                        ELSE ParseFail(i)
        ELSE IF t = SqlRangeBetween
            THEN LET q == ReadParam(s, p.next + 1)
                     q2 == ReadParam(s, q.next + 1)
                 IN  IF /\ q.ok /\ TokenAt(s, q.next) = SqlRangeAnd /\ q2.ok
                        /\ TokenAt(s, q2.next) = ")" /\ TokenAt(s, q2.next + 1) = ")"
                        THEN [ok |-> TRUE, next |-> q2.next + 2,
                              ast |-> [k |-> "InRange", neg |-> neg, p |-> p.ast.p,
                                       op |-> "between", q |-> q.ast.p, q2 |-> q2.ast.p]]
                        ELSE ParseFail(i)
        ELSE ParseFail(i)

RECURSIVE ParseOr(_, _), ParseAnd(_, _), ParsePrimary(_, _)

ParsePrimary(s, i) ==
    LET t == TokenAt(s, i)
    IN  CASE t = "true" -> [ok |-> TRUE, ast |-> [k |-> "True"], next |-> i + 1]
          [] t = "(" ->
                LET r == ParseOr(s, i + 1)
                IN  IF r.ok /\ TokenAt(s, r.next) = ")"
                        THEN [r EXCEPT !.next = r.next + 1]
                        ELSE ParseFail(i)
          [] t = SqlIn -> ParseSubselect(s, i, FALSE)
          [] t = SqlNotIn -> ParseSubselect(s, i, TRUE)
          [] t = SqlEntityEq ->
                LET p == ReadParam(s, i + 1)
                IN  IF p.ok
                        THEN [ok |-> TRUE, next |-> p.next,
                              ast |-> [k |-> "EntityEq", p |-> p.ast.p]]
                        ELSE ParseFail(i)
          [] OTHER -> ParseFail(i)

\* AND binds tighter than OR
ParseAnd(s, i) ==
    LET l == ParsePrimary(s, i)
    IN  IF l.ok /\ TokenAt(s, l.next) = " and "
            THEN LET r == ParseAnd(s, l.next + 1)
                 IN  [ok |-> r.ok, next |-> r.next,
                      ast |-> [k |-> "And", l |-> l.ast, r |-> r.ast]]
            ELSE l

ParseOr(s, i) ==
    LET l == ParseAnd(s, i)
    IN  IF l.ok /\ TokenAt(s, l.next) = " or "
            THEN LET r == ParseOr(s, l.next + 1)
                 IN  [ok |-> r.ok, next |-> r.next,
                      ast |-> [k |-> "Or", l |-> l.ast, r |-> r.ast]]
            ELSE l

\* prepare: select distinct entity from components where <expr>
\*          order by entity asc|desc
Prepare(sql) ==
    LET e == ParseOr(sql, 2)
    IN  IF /\ TokenAt(sql, 1) = SqlSelect
           /\ e.ok
           /\ e.next = Len(sql)
           /\ TokenAt(sql, e.next) \in {" order by entity asc", " order by entity desc"}
            THEN [ok |-> TRUE, ast |-> e.ast,
                  asc |-> TokenAt(sql, e.next) = " order by entity asc"]
            ELSE [ok |-> FALSE, ast |-> [k |-> "True"], asc |-> TRUE]

\* the names of the parameters of a parsed where clause
RECURSIVE ParamsOf(_)
ParamsOf(ast) ==
    CASE ast.k = "True" -> {}
      [] ast.k \in {"In", "InDataNull", "EntityEq"} -> {ast.p}
      [] ast.k = "InDataEq" -> {ast.p, ast.q}
      [] ast.k = "InRange" -> {ast.p, ast.q, ast.q2}
      [] ast.k \in {"And", "Or"} -> ParamsOf(ast.l) \cup ParamsOf(ast.r)

\* the value bound to a parameter; a parameter nothing is bound to is NULL
Bound(placeholders, name) ==
    LET js == {j \in DOMAIN placeholders : placeholders[j].name = name}
    IN  IF js = {} THEN SqlNull ELSE placeholders[MaxOf(js)].value

\* SQL's = on two values: "N" (unknown) when either is NULL
SqlEq(x, y) ==
    IF x.kind = "Null" \/ y.kind = "Null" THEN "N"
    ELSE IF x.kind = y.kind /\ x.v = y.v THEN "T" ELSE "F"

SqlNot(x) == CASE x = "T" -> "F" [] x = "F" -> "T" [] OTHER -> "N"

SqlAnd(x, y) ==
    IF x = "F" \/ y = "F" THEN "F" ELSE IF x = "T" /\ y = "T" THEN "T" ELSE "N"

SqlOr(x, y) ==
    IF x = "T" \/ y = "T" THEN "T" ELSE IF x = "F" /\ y = "F" THEN "F" ELSE "N"

\* velodb_extract_data (sqlite_ext.rs): Null and Integer pass, a Blob is
\* Null, Text is parsed as JSON (here: a number); Text that is no JSON is an
\* error of the function
ExtractData(d) ==
    CASE d.kind \in {"Null", "Blob"} -> SqlNull
      [] d.kind = "Integer" -> d
      [] d.kind = "Text" /\ d.v # <<>> /\ (\A i \in DOMAIN d.v : IsDigit(d.v[i])) ->
            [kind |-> "Integer", v |-> Decimal(ParseDecimal(d.v))]
      [] OTHER -> [kind |-> "Error", v |-> <<>>]

\* x <= y, x >= y and x between y and z on extracted values: unknown when
\* one of them is NULL, by numeric value otherwise
SqlCompare(op, x, y, z) ==
    IF x.kind # "Integer" \/ y.kind # "Integer" \/ z.kind # "Integer" THEN "N"
    ELSE LET a == ParseDecimal(x.v)
             lo == ParseDecimal(y.v)
             hi == ParseDecimal(z.v)
             holds == CASE op = "le" -> a <= lo
                        [] op = "ge" -> a >= lo
                        [] OTHER -> a >= lo /\ a <= hi
         IN  IF holds THEN "T" ELSE "F"

\* the function fails on a bound, or on the data of a row of the component
\* a range condition looks at
RECURSIVE ExtractFails(_, _, _)
ExtractFails(ast, placeholders, rows) ==
    CASE ast.k \in {"And", "Or"} ->
            ExtractFails(ast.l, placeholders, rows) \/ ExtractFails(ast.r, placeholders, rows)
      [] ast.k = "InRange" ->
            \/ ExtractData(Bound(placeholders, ast.q)).kind = "Error"
            \/ ExtractData(Bound(placeholders, ast.q2)).kind = "Error"
            \/ \E x \in rows :
                    /\ SqlEq(SqlText(<<x.component>>), Bound(placeholders, ast.p)) = "T"
                    /\ ExtractData(x.data).kind = "Error"
      [] OTHER -> FALSE

\* the where clause on row r
RECURSIVE EvalWhere(_, _, _, _)
EvalWhere(ast, placeholders, rows, r) ==
    CASE ast.k = "True" -> "T"
      [] ast.k = "EntityEq" ->
            SqlEq(SqlInteger(r.entity), Bound(placeholders, ast.p))
      [] ast.k \in {"In", "InDataNull", "InDataEq"} ->
            LET c == Bound(placeholders, ast.p)
                sub == {x \in rows :
                    /\ SqlEq(SqlText(<<x.component>>), c) = "T"
                    /\ ast.k = "InDataNull" => x.data.kind = "Null"
                    /\ ast.k = "InDataEq" =>
                            SqlEq(x.data, Bound(placeholders, ast.q)) = "T"}
                isIn == IF r.entity \in {x.entity : x \in sub} THEN "T" ELSE "F"
            IN  IF ast.neg THEN SqlNot(isIn) ELSE isIn
      [] ast.k = "InRange" ->
            LET c == Bound(placeholders, ast.p)
                sub == {x \in rows :
                    /\ SqlEq(SqlText(<<x.component>>), c) = "T"
                    /\ SqlCompare(ast.op, ExtractData(x.data),
                                  ExtractData(Bound(placeholders, ast.q)),
                                  ExtractData(Bound(placeholders, ast.q2))) = "T"}
                isIn == IF r.entity \in {x.entity : x \in sub} THEN "T" ELSE "F"
            IN  IF ast.neg THEN SqlNot(isIn) ELSE isIn
      [] ast.k = "And" ->
            SqlAnd(EvalWhere(ast.l, placeholders, rows, r),
                   EvalWhere(ast.r, placeholders, rows, r))
      [] ast.k = "Or" ->
            SqlOr(EvalWhere(ast.l, placeholders, rows, r),
                  EvalWhere(ast.r, placeholders, rows, r))

\* order by entity asc / desc of a set of ids
RECURSIVE OrderBy(_, _)
OrderBy(S, asc) ==
    IF S = {} THEN <<>>
    ELSE LET m == IF asc THEN CHOOSE x \in S : \A y \in S : x <= y
                         ELSE CHOOSE x \in S : \A y \in S : x >= y
         IN  <<m>> \o OrderBy(S \ {m}, asc)

QueryResult(res, ids) == [res |-> res, ids |-> ids]

\* binding the placeholders by name: a name that is no parameter of the
\* statement is an error
BindsAll(stmt, placeholders) ==
    \A j \in DOMAIN placeholders : placeholders[j].name \in ParamsOf(stmt.ast)

\* Ecs::fetch: prepare the statement, bind, collect the entity column
fetch(rows, q) ==
    IF q.panicked THEN QueryResult("Panic", <<>>)
    ELSE LET stmt == Prepare(q.sql)
         IN  IF \/ ~stmt.ok
                \/ ~BindsAll(stmt, q.placeholders)
                \/ ExtractFails(stmt.ast, q.placeholders, rows)
                THEN QueryResult("DatabaseError", <<>>)
                ELSE QueryResult("Ok",
                        OrderBy({r.entity : r \in
                                    {x \in rows :
                                        EvalWhere(stmt.ast, q.placeholders, rows, x) = "T"}},
                                stmt.asc))

(***************************************************************************)
(* Typed query algebra (src/src/query/mod.rs).  A QueryFilter type is a    *)
(* record tagged by t:                                                     *)
(*   Unit            ()                                                    *)
(*   Comp c          the bare component C                                  *)
(*   With c          With<C>          WithT cs     With<(C1, ..)>          *)
(*   Without c       Without<C>       WithoutT cs  Without<(C1, ..)>       *)
(*   AnyOf cs        AnyOf<(C1, ..)>                                       *)
(*   Tuple fs        (F1, ..)         Or fs        Or<(F1, ..)>            *)
(***************************************************************************)
QF_Unit == [t |-> "Unit"]
QF_Comp(c) == [t |-> "Comp", c |-> c]
QF_With(c) == [t |-> "With", c |-> c]
QF_Without(c) == [t |-> "Without", c |-> c]
QF_WithT(cs) == [t |-> "WithT", cs |-> cs]
QF_WithoutT(cs) == [t |-> "WithoutT", cs |-> cs]
QF_AnyOf(cs) == [t |-> "AnyOf", cs |-> cs]
QF_Tuple(fs) == [t |-> "Tuple", fs |-> fs]
QF_Or(fs) == [t |-> "Or", fs |-> fs]

\* impl QueryFilter for Or<(..)>
OrFilterExpression(exprs) == FE_Or(exprs)

\* impl QueryFilter for (..)
TupleFilterExpression(exprs) == FE_And(exprs)

\* <F as QueryFilter>::filter_expression
RECURSIVE QueryFilter_filter_expression(_)
QueryFilter_filter_expression(f) ==
    CASE f.t = "Unit" -> FE_None
      [] f.t = "Comp" -> FE_WithComponent(f.c)
      [] f.t = "With" -> FE_WithComponent(f.c)
      [] f.t = "Without" -> FE_WithoutComponent(f.c)
      [] f.t = "WithT" -> FE_And([i \in DOMAIN f.cs |-> FE_WithComponent(f.cs[i])])
      [] f.t = "WithoutT" -> FE_And([i \in DOMAIN f.cs |-> FE_WithoutComponent(f.cs[i])])
      [] f.t = "AnyOf" -> FE_Or([i \in DOMAIN f.cs |-> FE_WithComponent(f.cs[i])])
      [] f.t = "Tuple" ->
            TupleFilterExpression([i \in DOMAIN f.fs |-> QueryFilter_filter_expression(f.fs[i])])
      [] f.t = "Or" ->
            OrFilterExpression([i \in DOMAIN f.fs |-> QueryFilter_filter_expression(f.fs[i])])

\* <D as QueryData>::filter_expression.  A data shape D is a record tagged
\* by t: Unit (), EntityId, Entity, Comp c (the component C), Tuple fs.
RECURSIVE QueryData_filter_expression(_)
QueryData_filter_expression(d) ==
    CASE d.t = "Comp" -> FE_WithComponent(d.c)
      [] d.t = "Tuple" ->
            FE_And([i \in DOMAIN d.fs |-> QueryData_filter_expression(d.fs[i])])
      [] OTHER -> FE_None

\* the value a QueryFilter type stands for in the position of a filter
\* value, as Entity::try_matches passes D::default(): its own expression
FilterAsValue(f) == QueryFilter_filter_expression(f)

\* QueryFilterValue::filter_expression.  A filter value V is a record tagged
\* by t: Unit (), EntityId id, Value c (a component value), Range start end
\* (start..end), RangeTo end (..end), RangeFrom start (start..), Tuple fs,
\* Filter f (a QueryFilter type's default value).
RECURSIVE QueryFilterValue_filter_expression(_)
QueryFilterValue_filter_expression(v) ==
    CASE v.t = "Unit" -> FE_None
      [] v.t = "EntityId" -> FE_EntityId(v.id)
      [] v.t = "Value" -> FE_WithComponentData(v.c.name, Component_to_rusqlite(v.c))
      [] v.t = "Range" ->
            FE_WithComponentDataRange(v.start.name, Component_to_rusqlite(v.start),
                                      Component_to_rusqlite(v.end))
      [] v.t = "RangeTo" ->
            FE_WithComponentDataRange(v.end.name, SqlNull, Component_to_rusqlite(v.end))
      [] v.t = "RangeFrom" ->
            FE_WithComponentDataRange(v.start.name, Component_to_rusqlite(v.start), SqlNull)
      [] v.t = "Tuple" ->
            FE_And([i \in DOMAIN v.fs |-> QueryFilterValue_filter_expression(v.fs[i])])
      [] v.t = "Filter" -> FilterAsValue(v.f)

\* Query::as_sql_query
as_sql_query(d, f, v) ==
    FE_And(<<QueryData_filter_expression(d),
             QueryFilter_filter_expression(f),
             QueryFilterValue_filter_expression(v)>>)

\* Query::try_entities (asc) and Query::try_reverse_entities (~asc) of
\* Query<D, F, V>
Query_fetch(rows, d, f, v, asc) == fetch(rows, into_sql(as_sql_query(d, f, v), asc))

\* Query::try_entities of Query<Entity, F, ()>
Query_try_entities(rows, f) ==
    Query_fetch(rows, [t |-> "Entity"], f, [t |-> "Unit"], TRUE)

\* Entity::component: the wrapper of try_component that panics on an error
Entity_component(rows, e, c) ==
    LET got == Entity_try_component(rows, e, c)
    IN  IF got.res = "Err" THEN [got EXCEPT !.res = "Panic"] ELSE got

\* <D as QueryData>::from_entity: Some(output), None, or a panic.  A tuple
\* asks its members in order and stops at the first that is not Some.
RECURSIVE QueryData_from_entity(_, _, _)
QueryData_from_entity(rows, e, d) ==
    CASE d.t = "Unit" -> [res |-> "Some", out |-> [t |-> "Unit"]]
      [] d.t \in {"EntityId", "Entity"} -> [res |-> "Some", out |-> [t |-> d.t, id |-> e]]
      [] d.t = "Comp" ->
            LET got == Entity_component(rows, e, d.c)
            IN  [res |-> got.res, out |-> [t |-> "Comp", c |-> got.c]]
      [] d.t = "Tuple" ->
            LET outs == [i \in DOMAIN d.fs |-> QueryData_from_entity(rows, e, d.fs[i])]
                bad == {i \in DOMAIN outs : outs[i].res # "Some"}
            IN  IF bad = {}
                    THEN [res |-> "Some",
                          out |-> [t |-> "Tuple", fs |-> [i \in DOMAIN outs |-> outs[i].out]]]
                    ELSE [res |-> outs[CHOOSE i \in bad : \A j \in bad : i <= j].res,
                          out |-> [t |-> "Tuple", fs |-> <<>>]]

\* the items try_iter's iterator yields when it is consumed to its end:
\* filter_map(from_entity) over the ids, up to the first panic
RECURSIVE IterItems(_, _, _, _)
IterItems(rows, ids, d, i) ==
    IF i > Len(ids) THEN [res |-> "Ok", items |-> <<>>]
    ELSE LET got == QueryData_from_entity(rows, ids[i], d)
             rest == IterItems(rows, ids, d, i + 1)
         IN  CASE got.res = "Panic" -> [res |-> "Panic", items |-> <<>>]
               [] got.res = "None" -> rest
               [] OTHER -> [rest EXCEPT !.items = <<got.out>> \o rest.items]

\* Query::try_iter (asc) and Query::try_reverse_iter (~asc)
Query_try_iter(rows, d, f, v, asc) ==
    LET found == Query_fetch(rows, d, f, v, asc)
    IN  IF found.res # "Ok" THEN [res |-> found.res, items |-> <<>>]
        ELSE IterItems(rows, found.ids, d, 1)

\* Entity::try_matches: a query of data shape () whose filter value is the
\* tuple (entity id, D::default()); next().is_some()
Entity_try_matches(rows, e, f) ==
    LET v == [t |-> "Tuple", fs |-> <<[t |-> "EntityId", id |-> e], [t |-> "Filter", f |-> f]>>]
        got == Query_try_iter(rows, QF_Unit, QF_Unit, v, TRUE)
    IN  [res |-> got.res, matches |-> got.res = "Ok" /\ got.items # <<>>]

\* the set of entities a query with filter f returns
Matched(rows, f) == Range(Query_try_entities(rows, f).ids)

(***************************************************************************)
(* Change tracking (change_tracking_enable.sql): while it is enabled, the  *)
(* statements on components append to table changes.  A change record is   *)
(* [change, entity, component]; component is "" for create and destroy.    *)
(***************************************************************************)
Change(change, e, c) == [change |-> change, entity |-> e, component |-> c]

\* what the upserts of an attach append: names are the components of the
\* members that carry a value, from member i on; present are the components
\* the entity has before member i.  A new row logs attach, after create when
\* it is the entity's first; a row that is there already logs attach or
\* nothing (onUpdate).
RECURSIVE LogOfAttach(_, _, _, _, _)
LogOfAttach(present, e, names, onUpdate, i) ==
    IF i > Len(names) THEN <<>>
    ELSE LET c == names[i]
             logged ==
                IF c \in present
                    THEN IF onUpdate THEN <<Change("attach", e, c)>> ELSE <<>>
                    ELSE (IF present = {} THEN <<Change("create", e, "")>> ELSE <<>>)
                            \o <<Change("attach", e, c)>>
         IN  logged \o LogOfAttach(present \cup {c}, e, names, onUpdate, i + 1)

\* variant: the deletes log detach, and never destroy
LogOfDetachOnly(present, e, names, i) ==
    LET deleted == SelectSeq(SubSeq(names, i, Len(names)), LAMBDA c : c \in present)
    IN  [j \in DOMAIN deleted |-> Change("detach", e, deleted[j])]

\* what the deletes of the rows (e, names[i]), (e, names[i + 1]), .. append:
\* a deleted row logs detach, and destroy after it when it was the entity's
\* last
RECURSIVE LogOfDetach(_, _, _, _)
LogOfDetach(present, e, names, i) ==
    IF i > Len(names) THEN <<>>
    ELSE LET c == names[i]
             logged ==
                IF c \in present
                    THEN <<Change("detach", e, c)>>
                            \o (IF present = {c} THEN <<Change("destroy", e, "")>> ELSE <<>>)
                    ELSE <<>>
         IN  logged \o LogOfDetach(present \ {c}, e, names, i + 1)

\* the components entity e has
ComponentsOf(rows, e) == {r.component : r \in {x \in rows : x.entity = e}}

\* the names of the members of a bundle that carry a value
SomeNames(bundle) ==
    LET F[i \in 0..Len(bundle)] ==
            IF i = 0 THEN <<>>
            ELSE IF bundle[i].some THEN F[i - 1] \o <<bundle[i].c.name>> ELSE F[i - 1]
    IN  F[Len(bundle)]

\* table changes after a call that logged `log`
Logged(log) == IF tracking THEN changes \o log ELSE changes

\* whether a rewritten row logs attach is open while tracking is enabled
OnUpdate == IF tracking THEN BOOLEAN ELSE {FALSE}

(***************************************************************************)
(* Entity::try_modify_component and NewEntity::try_modify_component.  A    *)
(* closure is [mut, val, ok]: it sets the component's value to val when    *)
(* mut, and returns Ok(()) when ok and an error otherwise.                 *)
(***************************************************************************)
\* C::default()
Default(c) == [name |-> c, val |-> 0]

\* a marker has no value to set
ApplyClosure(f, component) ==
    IF f.mut /\ component.name = "Data" THEN [component EXCEPT !.val = f.val] ELSE component

\* variant: the component is attached before the closure's result is looked at
ModifyAttachFirst(rows, e, c, f, at) ==
    LET got == Entity_try_component(rows, e, c)
        component == IF got.res = "Some" THEN got.c ELSE Default(c)
        member == [c |-> ApplyClosure(f, component), some |-> TRUE]
    IN  [res |-> IF f.ok THEN "Ok" ELSE "FnError",
         rows |-> Entity_try_attach(rows, e, <<member>>, at)]

Entity_try_modify_component(rows, e, c, f, at) ==
    LET got == Entity_try_component(rows, e, c)
        component == IF got.res = "Some" THEN got.c ELSE Default(c)
        member == [c |-> ApplyClosure(f, component), some |-> TRUE]
    IN  IF got.res = "Err" THEN [res |-> "StorageError", rows |-> rows]
        ELSE IF ~f.ok THEN [res |-> "FnError", rows |-> rows]
        ELSE [res |-> "Ok", rows |-> Entity_try_attach(rows, e, <<member>>, at)]

NewEntity_try_modify_component(rows, c, f, at) ==
    LET member == [c |-> ApplyClosure(f, Default(c)), some |-> TRUE]
        out == NewEntity_try_attach(rows, <<member>>, at)
    IN  IF ~f.ok THEN [res |-> "FnError", rows |-> rows, eid |-> 0]
        ELSE [res |-> "Ok", rows |-> out.rows, eid |-> out.eid]

(***************************************************************************)
(* The times at which the statements of one call run: the clock never      *)
(* goes back, and may advance before any statement.                        *)
(***************************************************************************)
(***************************************************************************)
(* Systems and the schedule (src/src/system.rs, src/src/schedule.rs).  A   *)
(* system is known by its name; its entity carries Name and, once it has   *)
(* run successfully, LastRun.  What a system's function does is left open  *)
(* but for its result, Ok or Err.  lastOp holds the schedule, the position *)
(* of Schedule::tick in it (pc, 0 between ticks), the number of the tick   *)
(* and the runs so far, each [tick, system, ok].                           *)
(***************************************************************************)
\* the systems of test::schedules
sys_a == 1
sys_b == 2
sys_c == 3

Name(system) == [name |-> "Name", val |-> system]
LastRun(t) == [name |-> "LastRun", val |-> t]

Manually == [kind |-> "Manually", p |-> 0]
Always == [kind |-> "Always", p |-> 0]
Once == [kind |-> "Once", p |-> 0]
After(p) == [kind |-> "After", p |-> p]

\* Ecs::system_entity: the first entity of query::<(Entity, Name)>() whose
\* Name is the system's; 0 stands for None
system_entity(rows, system) ==
    LET found == {r.entity : r \in {x \in rows :
                        /\ x.component = "Name"
                        /\ Entity_try_component(rows, x.entity, "Name") =
                                [res |-> "Some", c |-> Name(system)]}}
    IN  IF found = {} THEN 0 ELSE CHOOSE e \in found : \A x \in found : e <= x

\* Ecs::get_or_create_system_entity: [rows, eid]
get_or_create_system_entity(rows, system, at) ==
    IF system_entity(rows, system) # 0
        THEN [rows |-> rows, eid |-> system_entity(rows, system)]
        ELSE NewEntity_try_attach(rows, <<[c |-> Name(system), some |-> TRUE]>>, <<at>>)

\* ecs.system_entity(name).and_then(|e| e.component::<LastRun>())
LastRunOf(rows, system) ==
    IF system_entity(rows, system) = 0 THEN [res |-> "None", c |-> LastRun(0)]
    ELSE Entity_component(rows, system_entity(rows, system), "LastRun")

\* variant: After runs whenever its predecessor has run at all
AfterAnyRun(mode, rows, system, at) ==
    [run |-> CASE mode.kind = "Always" -> TRUE
               [] mode.kind = "Once" -> LastRunOf(rows, system).res = "None"
               [] mode.kind = "After" -> LastRunOf(rows, mode.p).res = "Some"
               [] OTHER -> FALSE,
     rows |-> IF mode.kind = "Once"
                THEN get_or_create_system_entity(rows, system, at).rows ELSE rows]

\* variant: Once runs on every tick
OnceAsAlways(mode, rows, system, at) ==
    [run |-> CASE mode.kind \in {"Always", "Once"} -> TRUE
               [] mode.kind = "After" ->
                    /\ LastRunOf(rows, mode.p).res = "Some"
                    /\ \/ LastRunOf(rows, system).res = "None"
                       \/ LastRunOf(rows, mode.p).c.val > LastRunOf(rows, system).c.val
               [] OTHER -> FALSE,
     rows |-> IF mode.kind = "Once"
                THEN get_or_create_system_entity(rows, system, at).rows ELSE rows]

\* SchedulingMode::should_run of Manually, Always, Once and After:
\* [run, rows]; Once creates the system's entity when it is missing
should_run(mode, rows, system, at) ==
    CASE mode.kind = "Manually" -> [run |-> FALSE, rows |-> rows]
      [] mode.kind = "Always" -> [run |-> TRUE, rows |-> rows]
      [] mode.kind = "Once" ->
            LET entity == get_or_create_system_entity(rows, system, at)
            IN  [run |-> Entity_component(entity.rows, entity.eid, "LastRun").res = "None",
                 rows |-> entity.rows]
      [] mode.kind = "After" ->
            LET predecessor_last_run == LastRunOf(rows, mode.p)
                our_last_run == LastRunOf(rows, system)
            IN  [run |-> /\ predecessor_last_run.res = "Some"
                         /\ \/ our_last_run.res = "None"
                            \/ predecessor_last_run.c.val > our_last_run.c.val,
                 rows |-> rows]

\* Ecs::run_dyn_system: the system's entity is found or created, the system
\* runs, and only if it returned Ok is LastRun(Utc::now()) attached; t is
\* what Utc::now() returns
run_dyn_system(rows, system, ok, t) ==
    LET system_entity_ == get_or_create_system_entity(rows, system, t)
    IN  IF ~ok THEN [res |-> "Err", rows |-> system_entity_.rows]
        ELSE [res |-> "Ok",
              rows |-> Entity_try_attach(system_entity_.rows, system_entity_.eid,
                                         <<[c |-> LastRun(t), some |-> TRUE]>>, <<t>>)]

(***************************************************************************)
(* The command line (src/src/bin/ecsdb.rs).  A line is the sequence of its *)
(* words, the SQL of a .sql line being the words after the command.  What  *)
(* SQLite makes of that SQL is an input: prepare is the Result of          *)
(* db.prepare(sql) and stmt.query([]), "Ok" or "Err".                      *)
(***************************************************************************)
\* const COMMANDS: Commands = &[&Info, &Sqlite], by name
COMMANDS == <<".info", ".sql">>

\* Sqlite::run: prepare and query with `?`, then the column names and the
\* rows are printed
Sqlite_run(sql, prepare) ==
    IF prepare = "Err" THEN [res |-> "Err", out |-> <<>>]
    ELSE [res |-> "Ok", out |-> <<"cols", "rows">>]

\* eval: the line's first word names the command; an empty line and an
\* unknown command return Ok, the command's error is returned
eval(line, prepare) ==
    IF line = <<>> THEN [res |-> "Ok", out |-> <<>>]
    ELSE IF line[1] \notin Range(COMMANDS)
        THEN [res |-> "Ok", out |-> <<"Command not found">>]
    ELSE IF line[1] = ".info"
        THEN [res |-> "Ok", out |-> <<"Database">>]
        ELSE Sqlite_run(Tail(line), prepare)

(***************************************************************************)
(* The result sequence of a query, consumed step by step.  Ecs::fetch      *)
(* collects the entity ids into a Vec when the query is executed; the      *)
(* iterator it returns walks that Vec, and try_iter decodes each id        *)
(* (filter_map over D::from_entity) when the consumer asks for it.         *)
(***************************************************************************)
\* variant: a cursor on the live table, that finds its pos-th row when asked
FetchNextLive(rows, d, f, ids, pos) ==
    LET live == Query_fetch(rows, d, f, QF_Unit, TRUE).ids
    IN  IF pos <= Len(live) THEN live[pos] ELSE 0

\* rows.into_iter().next() of Ecs::fetch: the pos-th id collected; 0 stands
\* for None
fetch_next(rows, d, f, ids, pos) == IF pos <= Len(ids) THEN ids[pos] ELSE 0

Times(n) ==
    {at \in [1..n -> now..MaxClock] : \A i \in 1..n : \A j \in 1..n : i <= j => at[i] <= at[j]}

ClockAfter(at) == IF at = <<>> THEN now ELSE at[Len(at)]

(***************************************************************************)
(* Actions.                                                                *)
(***************************************************************************)
Init ==
    /\ components = {}
    /\ now = 0
    /\ lastOp = NoOp
    /\ tracking = FALSE
    /\ changes = <<>>

\* ecs.entity(e).try_attach(bundle)
Attach(e, bundle) ==
    \E at \in Times(Len(bundle)), onUpdate \in OnUpdate :
        LET rows == Entity_try_attach(components, e, bundle, at)
        IN  /\ Cardinality(rows) <= MaxRows
            /\ components' = rows
            /\ now' = ClockAfter(at)
            /\ lastOp' = [NoOp EXCEPT !.op = "attach", !.eid = e, !.bundle = bundle, !.at = at]
            /\ changes' = Logged(LogOfAttach(ComponentsOf(components, e), e,
                                             SomeNames(bundle), onUpdate, 1))
            /\ Len(changes') <= MaxChanges
            /\ UNCHANGED tracking

\* ecs.new_entity().try_attach(bundle): panics when the bundle is empty or
\* no member carries a value, and then nothing has been written
AttachNew(bundle) ==
    \E at \in Times(Len(bundle)), onUpdate \in OnUpdate :
        LET out == NewEntity_try_attach(components, bundle, at)
        IN  IF out.eid = 0
            THEN /\ at = [i \in DOMAIN bundle |-> now]
                 /\ ~onUpdate
                 /\ UNCHANGED <<components, now, tracking, changes>>
                 /\ lastOp' = [NoOp EXCEPT !.op = "attach_new", !.bundle = bundle,
                                           !.res = "Panic", !.at = at]
            ELSE /\ out.eid <= MaxEntityId
                 /\ Cardinality(out.rows) <= MaxRows
                 /\ components' = out.rows
                 /\ now' = ClockAfter(at)
                 /\ lastOp' = [NoOp EXCEPT !.op = "attach_new", !.eid = out.eid,
                                           !.bundle = bundle, !.at = at]
                 /\ changes' = Logged(LogOfAttach({}, out.eid, SomeNames(bundle),
                                                  onUpdate, 1))
                 /\ Len(changes') <= MaxChanges
                 /\ UNCHANGED tracking

\* ecs.entity(e).try_detach::<B>()
Detach(e, names) ==
    /\ components' = Entity_try_detach(components, e, names)
    /\ lastOp' = [NoOp EXCEPT !.op = "detach", !.eid = e, !.names = names,
                              !.deleted = Cardinality(components \ components')]
    /\ changes' = Logged(LogOfDetach(ComponentsOf(components, e), e, names, 1))
    /\ Len(changes') <= MaxChanges
    /\ UNCHANGED <<now, tracking>>

\* ecs.entity(e).try_destroy(): one statement deletes the entity's rows, in
\* an order the engine chooses
Destroy(e) ==
    LET present == ComponentsOf(components, e)
        orders == {o \in [1..Cardinality(present) -> present] : Range(o) = present}
    IN  \E order \in (IF tracking THEN orders ELSE {<<>>}) :
            /\ components' = Entity_try_destroy(components, e)
            /\ lastOp' = [NoOp EXCEPT !.op = "destroy", !.eid = e,
                                      !.deleted = Cardinality(components \ components')]
            /\ changes' = Logged(LogOfDetach(present, e, order, 1))
            /\ Len(changes') <= MaxChanges
            /\ UNCHANGED <<now, tracking>>

Next ==
    \/ \E e \in EntityIds, bundle \in Bundles : Attach(e, bundle)
    \/ \E bundle \in Bundles : AttachNew(bundle)
    \/ \E e \in EntityIds, names \in NameLists : Detach(e, names)
    \/ \E e \in EntityIds : Destroy(e)

Spec == Init /\ [][Next]_vars

(***************************************************************************)
(* A store opened on an existing database, and one query run on it.  The   *)
(* stores are those the lifecycle above produces: unique keys, at most     *)
(* MaxRows rows.  The filter of the query is a type parameter of the       *)
(* program, fixed with the store before the query runs.                    *)
(***************************************************************************)
PossibleRows ==
    {[entity |-> e, component |-> cv.name, data |-> Component_to_rusqlite(cv),
      last_modified |-> 0] : e \in EntityIds, cv \in ComponentValues}

Stores ==
    {rows \in SUBSET PossibleRows :
        /\ Cardinality(rows) <= MaxRows
        /\ \A r1 \in rows : \A r2 \in rows :
                (r1.entity = r2.entity /\ r1.component = r2.component) => r1 = r2}

\* filters on one component, and ()
BaseFilters ==
    {QF_Unit} \cup {QF_Comp(c) : c \in ComponentNames}
        \cup {QF_With(c) : c \in ComponentNames}
        \cup {QF_Without(c) : c \in ComponentNames}

\* the members of the tuples enumerated in full
MemberFilters ==
    {QF_Comp("A"), QF_Comp("Data"), QF_With("A"), QF_Without("A"), QF_Without("Data")}

FilterLists == UNION {[1..n -> MemberFilters] : n \in 1..MaxBundle}

ComponentLists == UNION {[1..n -> ComponentNames] : n \in 1..MaxBundle}

\* tuples that nest Or and tuples, among them tests::query's
\* (A, Without<A>, Or<(A, B)>)
NestedFilters ==
    LET AorData == QF_Or(<<QF_Comp("A"), QF_Comp("Data")>>)
    IN  {QF_Tuple(<<QF_Comp("A"), QF_Without("A"), AorData>>),
         QF_Tuple(<<QF_With("A"), QF_Without("A"), AorData>>),
         QF_Tuple(<<QF_Without("A"), AorData, QF_With("A")>>),
         QF_Tuple(<<AorData, QF_Without("Data")>>),
         QF_Tuple(<<QF_WithoutT(<<"A">>), AorData>>),
         QF_Or(<<QF_Tuple(<<QF_Comp("A"), QF_Comp("Data")>>), QF_Without("A")>>),
         QF_Or(<<QF_Comp("A"), QF_Comp("Data"), QF_Without("A")>>),
         QF_Or(<<QF_WithT(<<"A", "Data">>), QF_Without("Data")>>),
         QF_Or(<<QF_Unit, QF_Comp("A")>>),
         QF_Tuple(<<QF_Unit, QF_With("Data")>>)}

\* the components of a wide tuple: Data, A, Data, A, ...
WideNames(n) == [i \in 1..n |-> IF i % 2 = 1 THEN "Data" ELSE "A"]

WideFilters ==
    {QF_Or([i \in 1..WideArity |-> QF_Comp(WideNames(WideArity)[i])]),
     QF_Tuple([i \in 1..WideArity |-> QF_Comp(WideNames(WideArity)[i])]),
     QF_WithT(WideNames(WideArity)),
     QF_WithT(WideNames(WideArity - 1)),
     QF_Or([i \in 1..(WideArity - 1) |-> QF_Comp(WideNames(WideArity)[i])]),
     QF_Tuple(<<QF_Comp("Data"),
                QF_Or([i \in 1..(WideArity - 1) |-> QF_Comp(WideNames(WideArity)[i])])>>)}

Filters ==
    BaseFilters
        \cup {QF_Tuple(fs) : fs \in FilterLists}
        \cup {QF_Or(fs) : fs \in FilterLists}
        \cup {QF_WithT(cs) : cs \in ComponentLists}
        \cup {QF_WithoutT(cs) : cs \in ComponentLists}
        \cup {QF_AnyOf(cs) : cs \in ComponentLists}
        \cup NestedFilters
        \cup WideFilters

\* data shapes D of Query<D, (), ()>: the unit, the id, components, and
\* tuples of them up to the widest
DataShapes ==
    LET Comp(c) == [t |-> "Comp", c |-> c]
        Tuple(fs) == [t |-> "Tuple", fs |-> fs]
    IN  {[t |-> "Unit"], [t |-> "EntityId"], Comp("A"), Comp("Data"),
         Tuple(<<Comp("A"), Comp("Data")>>),
         Tuple(<<Comp("Data"), Comp("A")>>),
         Tuple(<<[t |-> "Entity"], Comp("A")>>),
         Tuple(<<Comp("Data"), [t |-> "EntityId"]>>),
         Tuple(<<[t |-> "Unit"], [t |-> "EntityId"]>>),
         Tuple(<<Tuple(<<Comp("A"), [t |-> "Unit"]>>), Comp("Data")>>),
         Tuple([i \in 1..(WideArity - 1) |-> Comp(WideNames(WideArity)[i])]),
         Tuple([i \in 1..WideArity |-> Comp(WideNames(WideArity)[i])])}

\* the values stored where queries filter by value
QueryValues ==
    ComponentValues \cup {[name |-> "Data", val |-> 10], [name |-> "B", val |-> 0]}

DataValues == {cv \in QueryValues : cv.name = "Data"}

\* filter values V of ecs.find(V): component values, ranges over Data, an
\* entity id, tuples
FilterValues ==
    {[t |-> "Value", c |-> cv] : cv \in QueryValues}
        \cup {[t |-> "Range", start |-> x, end |-> y] : x \in DataValues, y \in DataValues}
        \cup {[t |-> "RangeTo", end |-> y] : y \in DataValues}
        \cup {[t |-> "RangeFrom", start |-> x] : x \in DataValues}
        \cup {[t |-> "EntityId", id |-> SeedEntityId]}
        \cup {[t |-> "Tuple", fs |-> <<[t |-> "EntityId", id |-> SeedEntityId],
                                       [t |-> "Value", c |-> [name |-> "A", val |-> 0]]>>],
              [t |-> "Tuple", fs |-> <<[t |-> "Value", c |-> [name |-> "A", val |-> 0]],
                                       [t |-> "Value", c |-> [name |-> "Data", val |-> 2]]>>]}

ValueStores ==
    LET rowsOf == {[entity |-> e, component |-> cv.name, data |-> Component_to_rusqlite(cv),
                    last_modified |-> 0] : e \in EntityIds, cv \in QueryValues}
    IN  {rows \in SUBSET rowsOf :
            /\ Cardinality(rows) <= MaxRows
            /\ \A r1 \in rows : \A r2 \in rows :
                    (r1.entity = r2.entity /\ r1.component = r2.component) => r1 = r2}

\* a store and the type parameters and filter value of one Query<D, F, V>
InitQuery ==
    /\ now = 0
    /\ tracking = FALSE
    /\ changes = <<>>
    /\ \/ /\ components \in Stores
          /\ lastOp \in {[NoOp EXCEPT !.filter = f] : f \in Filters}
                            \cup {[NoOp EXCEPT !.data = d] : d \in DataShapes}
       \/ /\ components \in ValueStores
          /\ lastOp \in {[NoOp EXCEPT !.value = v] : v \in FilterValues}

\* the query runs: Query::try_iter / try_entities (asc) or
\* Query::try_reverse_iter / try_reverse_entities.  A query writes nothing;
\* what it returns is QueryReturned and QueryYielded below.
RunQuery(asc) ==
    /\ lastOp.op = "none"
    /\ lastOp' = [lastOp EXCEPT !.op = IF asc THEN "query" ELSE "reverse_query"]
    /\ UNCHANGED <<components, now, tracking, changes>>

NextQuery == \E asc \in BOOLEAN : RunQuery(asc)

SpecQuery == InitQuery /\ [][NextQuery]_vars

\* what the query of lastOp yields: [res, items]
QueryYielded ==
    Query_try_iter(components, lastOp.data, lastOp.filter, lastOp.value,
                   lastOp.op # "reverse_query")

\* the ids the query of lastOp fetched, in either order: [res, ids]
QueryFetched(asc) ==
    Query_fetch(components, lastOp.data, lastOp.filter, lastOp.value, asc)

\* what the query of lastOp returned: [res, ids]
QueryReturned == Query_try_entities(components, lastOp.filter)

(***************************************************************************)
(* The storage codec at work: typed values of the three storage            *)
(* strategies are attached, rows are written past the codec through        *)
(* Ecs::raw_sql, and components are read back singly and by iteration.     *)
(***************************************************************************)
TwoIds == {SeedEntityId - 1, SeedEntityId}

CodecNames == {"A", "Data", "X"}

\* a marker, a u64 newtype and a Vec<u8> newtype
CodecValues ==
    {[name |-> "A", val |-> 0], [name |-> "Data", val |-> 1], [name |-> "Data", val |-> 10],
     [name |-> "X", val |-> <<7, 0>>]}

\* values a raw statement may store: NULL, a text that is no JSON, and (as
\* text) a number
RawValues == {SqlNull, SqlText(<<"x">>), SqlText(<<"1">>)}

\* ecs.raw_sql().execute("insert or replace into components (entity,
\* component, data) values (?1, ?2, ?3)"), run at the current time
WriteRaw(e, c, d) ==
    \E onUpdate \in OnUpdate :
        /\ components' = (IF HasRow(components, e, c)
                            THEN SchemaUpdate(components, e, c, d, now)
                            ELSE SchemaInsert(components, e, c, d, now))
        /\ Cardinality(components') <= MaxRows
        /\ lastOp' = [NoOp EXCEPT !.op = "raw", !.eid = e, !.c = c, !.raw = d]
        /\ changes' = Logged(LogOfAttach(ComponentsOf(components, e), e, <<c>>, onUpdate, 1))
        /\ Len(changes') <= MaxChanges
        /\ UNCHANGED <<now, tracking>>

\* ecs.entity(e).try_component::<C>(); what it returns is ComponentRead below
ReadComponent(e, c) ==
    /\ lastOp' = [NoOp EXCEPT !.op = "try_component", !.eid = e, !.c = c]
    /\ UNCHANGED <<components, now, tracking, changes>>

\* ecs.query::<C>().try_iter() and the iterator consumed; what comes of it
\* is Iterated below
Iterate(c) ==
    /\ lastOp' = [NoOp EXCEPT !.op = "try_iter", !.c = c, !.data = [t |-> "Comp", c |-> c]]
    /\ UNCHANGED <<components, now, tracking, changes>>

NextCodec ==
    \/ \E e \in TwoIds, cv \in CodecValues : Attach(e, <<[c |-> cv, some |-> TRUE]>>)
    \/ \E e \in TwoIds, c \in CodecNames, d \in RawValues : WriteRaw(e, c, d)
    \/ \E e \in TwoIds, c \in CodecNames : ReadComponent(e, c)
    \/ \E c \in CodecNames : Iterate(c)

SpecCodec == Init /\ [][NextCodec]_vars

\* what the read of lastOp returned: [res, c]
ComponentRead == Entity_try_component(components, lastOp.eid, lastOp.c)

\* what the iteration of lastOp came to: [res, items]
Iterated == Query_try_iter(components, lastOp.data, QF_Unit, [t |-> "Unit"], TRUE)

(***************************************************************************)
(* The entity lifecycle with change tracking switched on and off, on the   *)
(* first entity and bundles of the marker and one Data value.              *)
(***************************************************************************)
TrackedBundles ==
    {bundle \in Bundles : \A i \in DOMAIN bundle : bundle[i].some /\ bundle[i].c.val <= 1}

\* Ecs::enable_change_tracking
EnableChangeTracking ==
    /\ tracking' = TRUE
    /\ lastOp' = [NoOp EXCEPT !.op = "enable_change_tracking"]
    /\ UNCHANGED <<components, now, changes>>

\* Ecs::disable_change_tracking
DisableChangeTracking ==
    /\ tracking' = FALSE
    /\ lastOp' = [NoOp EXCEPT !.op = "disable_change_tracking"]
    /\ UNCHANGED <<components, now, changes>>

\* Ecs::clear_changes: delete from changes
ClearChanges ==
    /\ changes' = <<>>
    /\ lastOp' = [NoOp EXCEPT !.op = "clear_changes"]
    /\ UNCHANGED <<components, now, tracking>>

NextChanges ==
    \/ EnableChangeTracking
    \/ DisableChangeTracking
    \/ ClearChanges
    \/ \E bundle \in TrackedBundles : Attach(SeedEntityId, bundle)
    \/ \E bundle \in TrackedBundles : AttachNew(bundle)
    \/ \E names \in NameLists : Detach(SeedEntityId, names)
    \/ Destroy(SeedEntityId)

SpecChanges == Init /\ [][NextChanges]_vars

(***************************************************************************)
(* Components modified in place, on two entities and on new ones.          *)
(***************************************************************************)
Closures ==
    {[mut |-> FALSE, val |-> 0, ok |-> ok] : ok \in BOOLEAN}
        \cup {[mut |-> TRUE, val |-> v, ok |-> ok] : v \in 1..2, ok \in BOOLEAN}

\* ecs.entity(e).try_modify_component::<C>(f)
Modify(e, c, f) ==
    \E at \in Times(1), onUpdate \in OnUpdate :
        LET out == Entity_try_modify_component(components, e, c, f, at)
        IN  IF out.res # "Ok"
            THEN /\ at = <<now>>
                 /\ ~onUpdate
                 /\ components' = out.rows
                 /\ lastOp' = [NoOp EXCEPT !.op = "modify", !.eid = e, !.c = c, !.f = f,
                                           !.res = out.res]
                 /\ UNCHANGED <<now, tracking, changes>>
            ELSE /\ Cardinality(out.rows) <= MaxRows
                 /\ components' = out.rows
                 /\ now' = ClockAfter(at)
                 /\ lastOp' = [NoOp EXCEPT !.op = "modify", !.eid = e, !.c = c, !.f = f,
                                           !.at = at]
                 /\ changes' = Logged(LogOfAttach(ComponentsOf(components, e), e, <<c>>,
                                                  onUpdate, 1))
                 /\ Len(changes') <= MaxChanges
                 /\ UNCHANGED tracking

\* ecs.new_entity().try_modify_component::<C>(f)
ModifyNew(c, f) ==
    \E at \in Times(1), onUpdate \in OnUpdate :
        LET out == NewEntity_try_modify_component(components, c, f, at)
        IN  IF out.res # "Ok"
            THEN /\ at = <<now>>
                 /\ ~onUpdate
                 /\ components' = out.rows
                 /\ lastOp' = [NoOp EXCEPT !.op = "modify_new", !.c = c, !.f = f,
                                           !.res = out.res]
                 /\ UNCHANGED <<now, tracking, changes>>
            ELSE /\ out.eid <= MaxEntityId
                 /\ Cardinality(out.rows) <= MaxRows
                 /\ components' = out.rows
                 /\ now' = ClockAfter(at)
                 /\ lastOp' = [NoOp EXCEPT !.op = "modify_new", !.eid = out.eid, !.c = c,
                                           !.f = f, !.at = at]
                 /\ changes' = Logged(LogOfAttach({}, out.eid, <<c>>, onUpdate, 1))
                 /\ Len(changes') <= MaxChanges
                 /\ UNCHANGED tracking

NextModify ==
    \/ \E e \in TwoIds, c \in ComponentNames, f \in Closures : Modify(e, c, f)
    \/ \E c \in ComponentNames, f \in Closures : ModifyNew(c, f)
    \/ \E e \in TwoIds : Destroy(e)

SpecModify == Init /\ [][NextModify]_vars

(***************************************************************************)
(* The filter compiler on its own: where_clause is compiled for filter     *)
(* expressions that nest And and Or over every kind of leaf.               *)
(***************************************************************************)
\* the leaves that carry placeholders
LeafExprs ==
    LET one == Component_to_rusqlite([name |-> "Data", val |-> 1])
        two == Component_to_rusqlite([name |-> "Data", val |-> 2])
    IN  {FE_WithComponent("A"), FE_WithoutComponent("A"), FE_EntityId(SeedEntityId),
         FE_WithComponentData("Data", one), FE_WithComponentData("A", SqlNull),
         FE_WithComponentDataRange("Data", one, two),
         FE_WithComponentDataRange("Data", SqlNull, two),
         FE_WithComponentDataRange("Data", one, SqlNull)}

\* And and Or over one or two leaves (or None)
FlatExprs ==
    LET xs == UNION {[1..n -> LeafExprs \cup {FE_None}] : n \in 1..2}
    IN  {FE_And(x) : x \in xs} \cup {FE_Or(x) : x \in xs}

\* And and Or whose members are themselves And or Or, two and three deep, and
\* And and Or of WideArity ranges
NestedExprs ==
    LET one == Component_to_rusqlite([name |-> "Data", val |-> 1])
        two == Component_to_rusqlite([name |-> "Data", val |-> 2])
        range == FE_WithComponentDataRange("Data", one, two)
        eq == FE_WithComponentData("Data", one)
        inner == {FE_And(<<eq, range>>), FE_Or(<<range, range>>),
                  FE_And(<<FE_WithComponent("A"), FE_WithoutComponent("A")>>),
                  FE_Or(<<FE_EntityId(SeedEntityId), eq>>),
                  FE_And(<<range>>), FE_Or(<<eq, eq, eq>>)}
        pairs == {<<x, y>> : x \in inner, y \in inner \cup LeafExprs}
        deep == {FE_And(<<FE_Or(<<FE_And(<<range, range>>), range>>), range>>),
                 FE_Or(<<eq, FE_And(<<eq, FE_Or(<<eq, FE_And(<<eq, range>>)>>)>>)>>),
                 FE_And(<<FE_And(<<FE_And(<<range>>)>>), FE_Or(<<FE_Or(<<range, eq>>)>>)>>)}
        wide == {FE_And([i \in 1..WideArity |-> range]),
                 FE_Or([i \in 1..WideArity |-> eq]),
                 FE_And(<<FE_Or([i \in 1..WideArity |-> range]), range>>)}
    IN  {FE_And(p) : p \in pairs} \cup {FE_Or(p) : p \in pairs} \cup deep \cup wide

Exprs == LeafExprs \cup FlatExprs \cup NestedExprs

\* a fresh store and the expression to compile
InitCompile ==
    /\ components = {}
    /\ now = 0
    /\ tracking = FALSE
    /\ changes = <<>>
    /\ lastOp \in {[NoOp EXCEPT !.expr = expr] : expr \in Exprs}

\* lastOp.expr.where_clause() is called; what it returns is Compiled below
Compile ==
    /\ lastOp.op = "none"
    /\ lastOp' = [lastOp EXCEPT !.op = "compile"]
    /\ UNCHANGED <<components, now, tracking, changes>>

NextCompile == Compile

SpecCompile == InitCompile /\ [][NextCompile]_vars

\* the fragment the call of lastOp returned
Compiled == where_clause(lastOp.expr)

(***************************************************************************)
(* The simplification pass: an expression is simplified, and it and its    *)
(* simplified form are run as queries on the same store.                   *)
(***************************************************************************)
SimplifyLeaves ==
    {FE_WithComponent("A"), FE_WithoutComponent("A"), FE_None,
     FE_WithComponentData("Data", Component_to_rusqlite([name |-> "Data", val |-> 1]))}

\* And and Or over lists of up to two leaves (the empty list included), and
\* And and Or with such a list as a member
SimplifyExprs ==
    LET flat == {FE_And(x) : x \in UNION {[1..n -> SimplifyLeaves] : n \in 0..2}}
                    \cup {FE_Or(x) : x \in UNION {[1..n -> SimplifyLeaves] : n \in 0..2}}
    IN  flat \cup {FE_And(<<f, FE_WithComponent("A")>>) : f \in flat}
             \cup {FE_Or(<<f, FE_WithoutComponent("A")>>) : f \in flat}
             \cup {FE_Or(<<FE_None, f>>) : f \in flat}

InitSimplify ==
    /\ components \in Stores
    /\ now = 0
    /\ tracking = FALSE
    /\ changes = <<>>
    /\ lastOp \in {[NoOp EXCEPT !.expr = expr] : expr \in SimplifyExprs}

\* lastOp.expr.simplify() is called; what it returns is Simplified below
Simplify ==
    /\ lastOp.op = "none"
    /\ lastOp' = [lastOp EXCEPT !.op = "simplify"]
    /\ UNCHANGED <<components, now, tracking, changes>>

NextSimplify == Simplify

SpecSimplify == InitSimplify /\ [][NextSimplify]_vars

Simplified == simplify(lastOp.expr)

\* the entities an expression matches in the store
Matches(rows, expr) == fetch(rows, into_sql(expr, TRUE))

(***************************************************************************)
(* Schedule::tick at work: a schedule is built, and ticks run its systems  *)
(* one after the other; a system's function returns Ok or Err.             *)
(***************************************************************************)
MaxTicks == 3

Entry(system, mode) == [system |-> system, mode |-> mode]

\* the schedule of test::schedules, and others over the same systems
Schedules ==
    {<<Entry(sys_a, Once), Entry(sys_b, After(sys_a)), Entry(sys_c, Always)>>,
     <<Entry(sys_a, Always), Entry(sys_b, After(sys_a))>>,
     <<Entry(sys_c, Always), Entry(sys_a, Once), Entry(sys_b, After(sys_a))>>,
     <<Entry(sys_b, After(sys_a)), Entry(sys_a, Once)>>,
     <<Entry(sys_a, Once), Entry(sys_c, Manually), Entry(sys_b, After(sys_a))>>}

InitSchedule ==
    /\ components = {}
    /\ now = 0
    /\ tracking = FALSE
    /\ changes = <<>>
    /\ lastOp \in {[NoOp EXCEPT !.op = "schedule", !.schedule = s] : s \in Schedules}

\* schedule.tick(&ecs) is called
TickStart ==
    /\ lastOp.pc = 0
    /\ lastOp.tick < MaxTicks
    /\ lastOp' = [lastOp EXCEPT !.pc = 1, !.tick = @ + 1, !.res = "Ok"]
    /\ UNCHANGED <<components, now, tracking, changes>>

\* one turn of the loop of Schedule::tick: should_run is asked, and the
\* system run if it says so; an Err ends the tick (the `?`), and so does
\* the end of the schedule.  ok is what the system's function returns.
TickStep(ok) ==
    /\ lastOp.pc \in DOMAIN lastOp.schedule
    /\ LET entry == lastOp.schedule[lastOp.pc]
           asked == should_run(entry.mode, components, entry.system, now)
           out == run_dyn_system(asked.rows, entry.system, ok, now + 1)
           next == IF lastOp.pc < Len(lastOp.schedule) THEN lastOp.pc + 1 ELSE 0
       IN  IF asked.run
            THEN /\ components' = out.rows
                 /\ now' = now + 1
                 /\ lastOp' = [lastOp EXCEPT
                        !.log = Append(@, [tick |-> lastOp.tick, system |-> entry.system,
                                           ok |-> ok]),
                        !.pc = IF ok THEN next ELSE 0,
                        !.res = out.res]
            ELSE /\ ok
                 /\ components' = asked.rows
                 /\ now' = now
                 /\ lastOp' = [lastOp EXCEPT !.pc = next]
    /\ UNCHANGED <<tracking, changes>>

NextSchedule ==
    \/ TickStart
    \/ \E ok \in BOOLEAN : TickStep(ok)

SpecSchedule == InitSchedule /\ [][NextSchedule]_vars

(***************************************************************************)
(* The prompt loop of main: lines are read and evaluated until the         *)
(* session ends.  lastOp.res is "Running" while the loop runs, then what   *)
(* main returned; lastOp.log holds what was read and printed.              *)
(***************************************************************************)
MaxLines == 3

\* what rl.readline(">> ") returns: a line, end of input, or another
\* error; with a line goes what SQLite will make of its SQL
Readlines ==
    {[kind |-> "Line", line |-> l, prepare |-> "Ok"] :
        l \in {<<>>, <<".help">>, <<".info">>, <<".sql", "select", "1">>}}
        \cup {[kind |-> "Line", line |-> <<".sql", "selec">>, prepare |-> "Err"],
              [kind |-> "Eof", line |-> <<>>, prepare |-> "Ok"],
              [kind |-> "Interrupted", line |-> <<>>, prepare |-> "Ok"]}

InitRepl ==
    /\ components \in {rows \in Stores : Cardinality(rows) <= 1}
    /\ now = 0
    /\ tracking = FALSE
    /\ changes = <<>>
    /\ lastOp = [NoOp EXCEPT !.op = "repl", !.res = "Running"]

\* one turn of the loop of main
Readline(readline) ==
    /\ lastOp.op = "repl"
    /\ lastOp.res = "Running"
    /\ Len(lastOp.log) < MaxLines
    /\ LET out == eval(readline.line, readline.prepare)
           turn == CASE readline.kind = "Line" ->
                            [res |-> IF out.res = "Err" THEN "Err" ELSE "Running",
                             printed |-> out.out]
                     [] readline.kind = "Eof" -> [res |-> "Ok", printed |-> <<"Exiting...">>]
                     [] OTHER -> [res |-> "Running", printed |-> <<"No input">>]
       IN  lastOp' = [lastOp EXCEPT
                !.res = turn.res,
                !.log = Append(@, [read |-> readline, printed |-> turn.printed])]
    /\ UNCHANGED <<components, now, tracking, changes>>

NextRepl == \E readline \in Readlines : Readline(readline)

SpecRepl == InitRepl /\ [][NextRepl]_vars

(***************************************************************************)
(* modify_component by several writers on one store (several handles on    *)
(* one database file): the read of try_modify_component and its attach     *)
(* are two statements, and statements of other writers come between them.  *)
(* Every writer modifies Data of entity SeedEntityId with the closure of    *)
(* test::schedules, |Count(ref mut c)| *c += 1.  lastOp.writers holds each  *)
(* writer's position (pc) and the component it has read (local),           *)
(* lastOp.bundle what was attached before the calls, and lastOp.log the    *)
(* value attached by a writer that attaches outright.                      *)
(***************************************************************************)
MaxWriters == 2

Writers == 1..MaxWriters

\* |Count(ref mut c)| *c += 1
Increment(component) == [component EXCEPT !.val = @ + 1]

InitRace ==
    /\ now = 0
    /\ tracking = FALSE
    /\ changes = <<>>
    /\ \E bundle \in {b \in Bundles : Len(b) <= 1 /\ \A i \in DOMAIN b : b[i].c.name = "Data"} :
        /\ components = Entity_try_attach({}, SeedEntityId, bundle, [i \in DOMAIN bundle |-> 0])
        /\ lastOp = [NoOp EXCEPT !.op = "modify", !.eid = SeedEntityId, !.c = "Data",
                                 !.bundle = bundle,
                                 !.writers = [w \in Writers |->
                                                [pc |-> "start", local |-> Default("Data")]]]

\* let mut component = self.try_component()?.unwrap_or_default();
ModifyRead(w) ==
    /\ lastOp.writers[w].pc = "start"
    /\ LET got == Entity_try_component(components, lastOp.eid, lastOp.c)
       IN  lastOp' = [lastOp EXCEPT !.writers[w] =
                [pc |-> "read",
                 local |-> IF got.res = "Some" THEN got.c ELSE Default(lastOp.c)]]
    /\ UNCHANGED <<components, now, tracking, changes>>

\* f(&mut component) and self.try_attach(component)
ModifyWrite(w) ==
    /\ lastOp.writers[w].pc = "read"
    /\ components' = Entity_try_attach(components, lastOp.eid,
                        <<[c |-> Increment(lastOp.writers[w].local), some |-> TRUE]>>,
                        <<now>>)
    /\ lastOp' = [lastOp EXCEPT !.writers[w].pc = "done"]
    /\ UNCHANGED <<now, tracking, changes>>

\* another writer attaches the component outright, once
AttachBetween(component) ==
    /\ lastOp.log = <<>>
    /\ components' = Entity_try_attach(components, lastOp.eid,
                        <<[c |-> component, some |-> TRUE]>>, <<now>>)
    /\ lastOp' = [lastOp EXCEPT !.log = <<component>>]
    /\ UNCHANGED <<now, tracking, changes>>

NextRace ==
    \/ \E w \in Writers : ModifyRead(w)
    \/ \E w \in Writers : ModifyWrite(w)
    \/ \E component \in {cv \in ComponentValues : cv.name = "Data"} : AttachBetween(component)

SpecRace == InitRace /\ [][NextRace]_vars

(***************************************************************************)
(* A query is executed and its results consumed one at a time, while       *)
(* attach, detach and destroy go on (by the consumer, as in                *)
(* tests::run_query_param, or by others); or one of the reads of an        *)
(* entity is made.  lastOp.rows is the table the statement of the query    *)
(* ran on, and lastOp.log the table as it was at each call of next(); the  *)
(* Vec of Ecs::fetch and what each call visited follow from them           *)
(* (Collected and Visit below); lastOp.pc counts the writes made since.    *)
(***************************************************************************)
MaxVisits == 3

MaxWrites == 2

IterStores == {rows \in Stores : \A r \in rows : r.entity \in TwoIds}

InitIter ==
    /\ components \in IterStores
    /\ now = 0
    /\ tracking = FALSE
    /\ changes = <<>>
    /\ lastOp \in {[NoOp EXCEPT !.data = d, !.filter = f] :
                        d \in {[t |-> "Entity"], QF_Comp("Data")},
                        f \in {QF_Unit, QF_With("A")}}

\* query.try_iter(): the statement runs on the table as it is now
Execute ==
    /\ lastOp.op = "none"
    /\ lastOp' = [lastOp EXCEPT !.op = "iter", !.rows = components]
    /\ UNCHANGED <<components, now, tracking, changes>>

\* next() on the iterator try_iter returned: the next id is taken from the
\* Vec and decoded on the table as it is now (None once the Vec is used up)
Consume ==
    /\ lastOp.op = "iter"
    /\ Len(lastOp.log) < MaxVisits
    /\ lastOp' = [lastOp EXCEPT !.log = Append(@, components)]
    /\ UNCHANGED <<components, now, tracking, changes>>

\* entity.attach(..) while the results are being consumed
AttachDuring(e, member) ==
    /\ lastOp.op = "iter"
    /\ lastOp.pc < MaxWrites
    /\ components' = Entity_try_attach(components, e, <<member>>, <<now>>)
    /\ Cardinality(components') <= MaxRows
    /\ lastOp' = [lastOp EXCEPT !.pc = @ + 1]
    /\ UNCHANGED <<now, tracking, changes>>

\* entity.detach::<C>() while the results are being consumed
DetachDuring(e, c) ==
    /\ lastOp.op = "iter"
    /\ lastOp.pc < MaxWrites
    /\ components' = Entity_try_detach(components, e, <<c>>)
    /\ lastOp' = [lastOp EXCEPT !.pc = @ + 1]
    /\ UNCHANGED <<now, tracking, changes>>

\* entity.destroy() while the results are being consumed
DestroyDuring(e) ==
    /\ lastOp.op = "iter"
    /\ lastOp.pc < MaxWrites
    /\ components' = Entity_try_destroy(components, e)
    /\ lastOp' = [lastOp EXCEPT !.pc = @ + 1]
    /\ UNCHANGED <<now, tracking, changes>>

\* variant: exists() that creates the entity it does not find
ExistsCreating(e) ==
    /\ lastOp.op = "none"
    /\ components' = IF Entity_try_exists(components, e) THEN components
                     ELSE Entity_try_attach(components, e,
                            <<[c |-> [name |-> "A", val |-> 0], some |-> TRUE]>>, <<now>>)
    /\ lastOp' = [lastOp EXCEPT !.op = "exists", !.eid = e, !.res = "true"]
    /\ UNCHANGED <<now, tracking, changes>>

\* entity.exists()
Exists(e) ==
    /\ lastOp.op = "none"
    /\ lastOp' = [lastOp EXCEPT !.op = "exists", !.eid = e,
                    !.res = IF Entity_try_exists(components, e) THEN "true" ELSE "false"]
    /\ UNCHANGED <<components, now, tracking, changes>>

\* Entity::has_all_dynamic: every name has a row
Entity_try_has(rows, e, names) == \A i \in DOMAIN names : HasRow(rows, e, names[i])

\* entity.has::<B>()
Has(e, names) ==
    /\ lastOp.op = "none"
    /\ lastOp' = [lastOp EXCEPT !.op = "has", !.eid = e, !.names = names,
                    !.res = IF Entity_try_has(components, e, names) THEN "true" ELSE "false"]
    /\ UNCHANGED <<components, now, tracking, changes>>

\* entity.component_names()
ComponentNamesOf(e) ==
    /\ lastOp.op = "none"
    /\ \E names \in {o \in [1..Cardinality(ComponentsOf(components, e)) -> ComponentNames] :
                        Range(o) = ComponentsOf(components, e)} :
            lastOp' = [lastOp EXCEPT !.op = "component_names", !.eid = e, !.names = names]
    /\ UNCHANGED <<components, now, tracking, changes>>

\* entity.try_component::<C>()
ComponentOf(e, c) ==
    /\ lastOp.op = "none"
    /\ lastOp' = [lastOp EXCEPT !.op = "component", !.eid = e, !.c = c,
                    !.res = Entity_try_component(components, e, c).res]
    /\ UNCHANGED <<components, now, tracking, changes>>

\* entity.try_matches::<F>(), F being the filter of lastOp; what it returns
\* is MatchesRead below
MatchesOf(e) ==
    /\ lastOp.op = "none"
    /\ lastOp' = [lastOp EXCEPT !.op = "matches", !.eid = e]
    /\ UNCHANGED <<components, now, tracking, changes>>

NextIter ==
    \/ Execute
    \/ Consume
    \/ \E e \in TwoIds, member \in {m \in BundleMembers : m.some} : AttachDuring(e, member)
    \/ \E e \in TwoIds, c \in ComponentNames : DetachDuring(e, c)
    \/ \E e \in TwoIds : DestroyDuring(e)
    \/ \E e \in TwoIds : Exists(e)
    \/ \E e \in TwoIds, names \in NameLists : Has(e, names)
    \/ \E e \in TwoIds : ComponentNamesOf(e)
    \/ \E e \in TwoIds, c \in ComponentNames : ComponentOf(e, c)
    \/ \E e \in TwoIds : MatchesOf(e)

SpecIter == InitIter /\ [][NextIter]_vars

\* the Vec the statement of lastOp collected: [res, ids]
Collected == Query_fetch(lastOp.rows, lastOp.data, lastOp.filter, QF_Unit, TRUE)

\* the i-th call of next(): the id taken from the Vec ids (0 past its end)
\* and what D::from_entity made of it
Visit(ids, i) ==
    LET e == fetch_next(lastOp.log[i], lastOp.data, lastOp.filter, ids, i)
    IN  [id |-> e,
         got |-> IF e = 0 THEN [res |-> "None"]
                 ELSE QueryData_from_entity(lastOp.log[i], e, lastOp.data)]

\* what the try_matches of lastOp returned: [res, matches]
MatchesRead == Entity_try_matches(components, lastOp.eid, lastOp.filter)

(***************************************************************************)
(* Properties of the entity lifecycle (specification Spec).                *)
(***************************************************************************)
RowOf(rows, e, c) == CHOOSE r \in rows : r.entity = e /\ r.component = c

AttachOps == {"attach", "attach_new"}

\* member i is the last member of its component that carries a value
LastOf(bundle, i) ==
    /\ bundle[i].some
    /\ ~\E j \in DOMAIN bundle :
            j > i /\ bundle[j].some /\ bundle[j].c.name = bundle[i].c.name

\* C1: in every reachable state the components table holds at most one row
\* for each (entity, component name) pair.
C1_Uniqueness ==
    \A r1 \in components : \A r2 \in components :
        (r1.entity = r2.entity /\ r1.component = r2.component) => r1 = r2

\* a bundle naming one component twice with different values was attached,
\* and the entity has that component
C1_Witness ==
    /\ lastOp.op = "attach"
    /\ Len(lastOp.bundle) = 2
    /\ lastOp.bundle[1].some /\ lastOp.bundle[2].some
    /\ lastOp.bundle[1].c.name = lastOp.bundle[2].c.name
    /\ lastOp.bundle[1].c.val # lastOp.bundle[2].c.val
    /\ HasRow(components, lastOp.eid, lastOp.bundle[1].c.name)
    /\ Cardinality(components) >= 2

\* C2: attach overwrites: after an attach, reading a component of the bundle
\* from the entity yields the value of the last member of that component,
\* whatever the entity held before and whatever earlier members said.
C2_AttachOverwrites ==
    (lastOp.op \in AttachOps /\ lastOp.res = "Ok") =>
        \A i \in DOMAIN lastOp.bundle :
            LastOf(lastOp.bundle, i) =>
                Entity_try_component(components, lastOp.eid, lastOp.bundle[i].c.name)
                    = [res |-> "Some", c |-> lastOp.bundle[i].c]

\* (Data(v1), Data(v2)) with v1 # v2 was attached and Data reads as v2
C2_Witness ==
    /\ lastOp.op = "attach"
    /\ Len(lastOp.bundle) = 2
    /\ lastOp.bundle[1].some /\ lastOp.bundle[2].some
    /\ lastOp.bundle[1].c.name = "Data" /\ lastOp.bundle[2].c.name = "Data"
    /\ lastOp.bundle[1].c.val # lastOp.bundle[2].c.val
    /\ Entity_try_component(components, lastOp.eid, "Data")
            = [res |-> "Some", c |-> lastOp.bundle[2].c]

\* the table, and the entity written to, just before member i of an attach
\* of bundle to entity e (e = 0: a new entity) is applied
BeforeMember(rows, e, bundle, at, i) ==
    IF e # 0
        THEN [rows |-> Entity_try_attach(rows, e, SubSeq(bundle, 1, i - 1),
                                         SubSeq(at, 1, i - 1)),
              eid |-> e]
        ELSE NewEntity_try_attach(rows, SubSeq(bundle, 1, i - 1), SubSeq(at, 1, i - 1))

AfterMember(rows, e, bundle, at, i) ==
    IF e # 0
        THEN [rows |-> Entity_try_attach(rows, e, SubSeq(bundle, 1, i),
                                         SubSeq(at, 1, i)),
              eid |-> e]
        ELSE NewEntity_try_attach(rows, SubSeq(bundle, 1, i), SubSeq(at, 1, i))

\* member i of the bundle finds its own encoded value stored for (e, c), and
\* the row is the same row afterwards
IdenticalMemberIsNoOp(rows, e, bundle, at, i) ==
    LET before == BeforeMember(rows, e, bundle, at, i)
        after == AfterMember(rows, e, bundle, at, i)
        c == bundle[i].c.name
    IN  (/\ bundle[i].some
         /\ HasRow(before.rows, before.eid, c)
         /\ RowOf(before.rows, before.eid, c).data = Component_to_rusqlite(bundle[i].c))
            => /\ after.eid = before.eid
               /\ RowOf(after.rows, after.eid, c) = RowOf(before.rows, before.eid, c)

\* C3: for attach on an existing entity and on a new entity alike, a bundle
\* member whose encoded value is identical to the value currently stored for
\* (e, c) is a no-op: the row's data and last_modified are left unchanged.
C3_IdenticalValueIsNoOp ==
    [][(lastOp'.op \in AttachOps /\ lastOp'.res = "Ok") =>
            \A i \in DOMAIN lastOp'.bundle :
                IdenticalMemberIsNoOp(components,
                                      IF lastOp'.op = "attach" THEN lastOp'.eid ELSE 0,
                                      lastOp'.bundle, lastOp'.at, i)]_vars

\* C4: exists(e) is true iff at least one row references e: an entity
\* starts to exist on its first successful attach and on nothing else, and
\* stops existing as soon as its last component is detached or it is
\* destroyed, and on nothing else.
C4_ExistsIffRow ==
    [][\A e \in EntityIds :
        /\ Entity_try_exists(components, e) <=> (\E r \in components : r.entity = e)
        /\ Entity_try_exists(components', e) <=> (\E r \in components' : r.entity = e)
        /\ (/\ lastOp'.op \in AttachOps /\ lastOp'.res = "Ok" /\ lastOp'.eid = e
            /\ \E i \in DOMAIN lastOp'.bundle : lastOp'.bundle[i].some)
                => Entity_try_exists(components', e)
        /\ (lastOp'.op = "destroy" /\ lastOp'.eid = e)
                => ~Entity_try_exists(components', e)
        /\ (/\ lastOp'.op = "detach" /\ lastOp'.eid = e
            /\ ComponentsOf(components, e) \subseteq Range(lastOp'.names))
                => ~Entity_try_exists(components', e)
        /\ (~Entity_try_exists(components, e) /\ Entity_try_exists(components', e))
                => (lastOp'.op \in AttachOps /\ lastOp'.eid = e)
        /\ (Entity_try_exists(components, e) /\ ~Entity_try_exists(components', e))
                => (lastOp'.op \in {"detach", "destroy"} /\ lastOp'.eid = e)]_vars

\* a detach removed the last component of an entity while another entity
\* remains
C4_Witness ==
    /\ lastOp.op = "detach"
    /\ lastOp.deleted >= 1
    /\ ~Entity_try_exists(components, lastOp.eid)
    /\ \E e \in EntityIds : Entity_try_exists(components, e)

\* C5: the id assigned to a new entity is 100 if the components table is
\* empty and max(existing entity id) + 1 otherwise, and is never the id of
\* an entity that exists at that moment.
C5_NewEntityId ==
    [][(lastOp'.op = "attach_new" /\ lastOp'.res = "Ok") =>
            /\ lastOp'.eid = IF components = {} THEN 100
                             ELSE MaxOf({r.entity : r \in components}) + 1
            /\ ~Entity_try_exists(components, lastOp'.eid)
            /\ Entity_try_exists(components', lastOp'.eid)]_vars

\* a new entity was created in a non-empty table and got max + 1
C5_Witness ==
    /\ lastOp.op = "attach_new"
    /\ lastOp.res = "Ok"
    /\ lastOp.eid # 100
    /\ \E r \in components : r.entity = lastOp.eid - 1

\* C6: detach(e, bundle) removes exactly the rows (e, c) for the component
\* names c of the bundle and succeeds also when the entity lacks one of
\* them; every other row is left unchanged.
C6_DetachExactly ==
    [][lastOp'.op = "detach" =>
            /\ lastOp'.res = "Ok"
            /\ components' = {r \in components :
                    ~(r.entity = lastOp'.eid /\ r.component \in Range(lastOp'.names))}]_vars

\* a detach naming two components removed one row (the other was absent)
\* and left the entity's other component and another entity's rows
C6_Witness ==
    /\ lastOp.op = "detach"
    /\ Len(lastOp.names) = 2
    /\ lastOp.deleted = 1
    /\ Entity_try_exists(components, lastOp.eid)
    /\ \E r \in components : r.entity # lastOp.eid

\* queries asked after a destroy
ProbeFilters ==
    {QF_Unit, QF_Comp("A"), QF_Comp("Data"), QF_Without("A"), QF_Without("Data"),
     QF_Or(<<QF_Comp("A"), QF_Comp("Data")>>)}

\* C7: destroy(e) removes all rows of e and none of any other entity, so
\* that afterwards e does not exist and no query returns e; destroying an
\* entity without rows succeeds and leaves the store unchanged.
C7_Destroy ==
    /\ [][lastOp'.op = "destroy" =>
            /\ lastOp'.res = "Ok"
            /\ components' = {r \in components : r.entity # lastOp'.eid}
            /\ ~Entity_try_exists(components, lastOp'.eid) => components' = components]_vars
    /\ [](lastOp.op = "destroy" =>
            /\ ~Entity_try_exists(components, lastOp.eid)
            /\ \A f \in ProbeFilters :
                    /\ Query_try_entities(components, f).res = "Ok"
                    /\ lastOp.eid \notin Matched(components, f))

\* an entity with two components was destroyed and another entity remains
C7_Witness ==
    /\ lastOp.op = "destroy"
    /\ lastOp.deleted = 2
    /\ components # {}

(***************************************************************************)
(* Properties of queries (specification SpecQuery).                        *)
(***************************************************************************)
AllEntities(rows) == {r.entity : r \in rows}

NoDuplicates(ids) == Len(ids) = Cardinality(Range(ids))

\* a tuple filter with a member With<c> or c and a member Without<c>
ContradictoryTuple(f) ==
    /\ f.t = "Tuple"
    /\ \E i \in DOMAIN f.fs : \E j \in DOMAIN f.fs :
            /\ f.fs[i].t \in {"With", "Comp"}
            /\ f.fs[j].t = "Without"
            /\ f.fs[i].c = f.fs[j].c

\* C8: a query whose filter combines With<A> (or the bare component A) and
\* Without<A> in one tuple returns no entity, also when further filters such
\* as Or<(A, B)> are added to the tuple.
C8_WithAndWithoutIsEmpty ==
    (lastOp.op = "query" /\ ContradictoryTuple(lastOp.filter)) =>
        QueryReturned.ids = <<>>

\* (.., Without<A>, .., Or<(A, Data)>) ran without error on a store where
\* one entity has A and another does not
C8_Witness ==
    /\ lastOp.op = "query"
    /\ QueryReturned.res = "Ok"
    /\ ContradictoryTuple(lastOp.filter)
    /\ \E i \in DOMAIN lastOp.filter.fs : lastOp.filter.fs[i].t = "Or"
    /\ \E e1 \in AllEntities(components) : \E e2 \in AllEntities(components) :
            HasRow(components, e1, "A") /\ ~HasRow(components, e2, "A")

\* the union, and the intersection, of the members' matching sets
UnionOfMembers(rows, fs) == UNION {Matched(rows, fs[i]) : i \in DOMAIN fs}

IntersectionOfMembers(rows, fs) ==
    {e \in AllEntities(rows) : \A i \in DOMAIN fs : e \in Matched(rows, fs[i])}

\* C9: the set of entities matched by Or<(F1, ..., Fn)> equals the union of
\* the sets matched by F1, ..., Fn individually, and an entity matching
\* several members is returned once.
C9_OrIsUnion ==
    (lastOp.op = "query" /\ lastOp.filter.t = "Or") =>
        /\ Range(QueryReturned.ids) = UnionOfMembers(components, lastOp.filter.fs)
        /\ NoDuplicates(QueryReturned.ids)

\* C9 holds for the Or filters of fewer than WideArity members
C9_OrIsUnionWhenNarrow ==
    (/\ lastOp.op = "query" /\ lastOp.filter.t = "Or"
     /\ Len(lastOp.filter.fs) < WideArity) =>
        /\ QueryReturned.res = "Ok"
        /\ Range(QueryReturned.ids) = UnionOfMembers(components, lastOp.filter.fs)
        /\ NoDuplicates(QueryReturned.ids)

\* C10: a tuple filter (F1, ..., Fn) matches exactly the entities that match
\* every Fi; the same holds for With<(A, B, ...)>, which matches exactly the
\* entities having all named components.
C10_TupleIsIntersection ==
    /\ (lastOp.op = "query" /\ lastOp.filter.t = "Tuple") =>
            Range(QueryReturned.ids) = IntersectionOfMembers(components, lastOp.filter.fs)
    /\ (lastOp.op = "query" /\ lastOp.filter.t = "WithT") =>
            Range(QueryReturned.ids) =
                {e \in AllEntities(components) :
                    \A i \in DOMAIN lastOp.filter.cs :
                        HasRow(components, e, lastOp.filter.cs[i])}

\* C10 holds for the tuples and With<(..)> of fewer than WideArity
\* members whose members are no wider either
C10_TupleIsIntersectionWhenNarrow ==
    /\ (/\ lastOp.op = "query" /\ lastOp.filter.t = "Tuple"
        /\ Len(lastOp.filter.fs) < WideArity
        /\ \A i \in DOMAIN lastOp.filter.fs :
                lastOp.filter.fs[i].t = "Or" => Len(lastOp.filter.fs[i].fs) <= MaxBundle)
            => /\ QueryReturned.res = "Ok"
               /\ Range(QueryReturned.ids) =
                    IntersectionOfMembers(components, lastOp.filter.fs)
    /\ (/\ lastOp.op = "query" /\ lastOp.filter.t = "WithT"
        /\ Len(lastOp.filter.cs) < WideArity)
            => /\ QueryReturned.res = "Ok"
               /\ Range(QueryReturned.ids) =
                    {e \in AllEntities(components) :
                        \A i \in DOMAIN lastOp.filter.cs :
                            HasRow(components, e, lastOp.filter.cs[i])}

(***************************************************************************)
(* Properties of data shapes, order and filter values (SpecQuery).         *)
(***************************************************************************)
\* the elements of a set of ids, ascending
Ascending(S) ==
    [i \in 1..Cardinality(S) |-> CHOOSE x \in S : Cardinality({y \in S : y < x}) = i - 1]

Reversed(seq) == [i \in 1..Len(seq) |-> seq[Len(seq) + 1 - i]]

\* the components a data shape names
RECURSIVE ShapeComponents(_)
ShapeComponents(d) ==
    CASE d.t = "Comp" -> {d.c}
      [] d.t = "Tuple" -> UNION {ShapeComponents(d.fs[i]) : i \in DOMAIN d.fs}
      [] OTHER -> {}

\* the row of shape d for entity e: its stored values, decoded
RECURSIVE ShapeRow(_, _, _)
ShapeRow(rows, e, d) ==
    CASE d.t = "Unit" -> [t |-> "Unit"]
      [] d.t \in {"EntityId", "Entity"} -> [t |-> d.t, id |-> e]
      [] d.t = "Comp" ->
            [t |-> "Comp", c |-> Component_from_rusqlite(d.c, RowOf(rows, e, d.c).data).c]
      [] d.t = "Tuple" ->
            [t |-> "Tuple", fs |-> [i \in DOMAIN d.fs |-> ShapeRow(rows, e, d.fs[i])]]

\* the entities that have every component of a set
HavingAll(rows, cs) == {e \in AllEntities(rows) : \A c \in cs : HasRow(rows, e, c)}

\* a query with no filter and no filter value
PlainQuery ==
    /\ lastOp.op = "query"
    /\ lastOp.filter = QF_Unit
    /\ lastOp.value = [t |-> "Unit"]

ShapeRows(rows, d) ==
    LET ids == Ascending(HavingAll(rows, ShapeComponents(d)))
    IN  [i \in DOMAIN ids |-> ShapeRow(rows, ids[i], d)]

\* C11: a query with no explicit filter returns exactly the entities that
\* have every component named in its data shape, each row carrying the
\* decoded stored values; the shapes (), EntityId and Entity return every
\* existing entity.
C11_DataShapeConstrains ==
    PlainQuery =>
        /\ QueryYielded.res = "Ok"
        /\ QueryYielded.items = ShapeRows(components, lastOp.data)

\* C11 holds for the shapes that name fewer than WideArity components
C11_DataShapeConstrainsWhenNarrow ==
    (PlainQuery /\ (lastOp.data.t = "Tuple" => Len(lastOp.data.fs) < WideArity)) =>
        /\ QueryYielded.res = "Ok"
        /\ QueryYielded.items = ShapeRows(components, lastOp.data)

\* a two-component shape returned one row of an entity that has both, on a
\* store where another entity has only one of them
C11_NarrowWitness ==
    /\ PlainQuery
    /\ lastOp.data.t = "Tuple"
    /\ ShapeComponents(lastOp.data) = {"A", "Data"}
    /\ QueryYielded.res = "Ok"
    /\ Len(QueryYielded.items) = 1
    /\ Cardinality(AllEntities(components)) = 2

\* the query of lastOp ran, forward or in reverse
QueryRan == lastOp.op \in {"query", "reverse_query"}

StrictlyAscending(ids) == \A i \in 1..(Len(ids) - 1) : ids[i] < ids[i + 1]

StrictlyDescending(ids) == \A i \in 1..(Len(ids) - 1) : ids[i] > ids[i + 1]

\* C12: a query yields the matching entity ids in strictly ascending order
\* with no id repeated, and the reverse variant yields the same ids in
\* strictly descending order: exactly the reversed sequence.
C12_AscendingAndReverse ==
    QueryRan =>
        \A forward \in {QueryFetched(TRUE)}, reverse \in {QueryFetched(FALSE)} :
            /\ StrictlyAscending(forward.ids)
            /\ StrictlyDescending(reverse.ids)
            /\ reverse.res = forward.res
            /\ reverse.ids = Reversed(forward.ids)

\* Or<(A, Data)> ran in reverse and returned three entities
C12_Witness ==
    /\ lastOp.op = "reverse_query"
    /\ lastOp.filter.t = "Or"
    /\ QueryFetched(FALSE).res = "Ok"
    /\ Len(QueryFetched(FALSE).ids) = 3

\* the rows of component c whose data is d
RowsWithData(rows, c, d) == {r \in rows : r.component = c /\ r.data = d}

\* C14: find(C(v)) returns exactly the existing entities that have
\* component C with stored data equal to the encoding of v (for a marker:
\* C with null data); entities holding the same data under another
\* component name, or C with another value, are not returned.
C14_FindByValue ==
    (QueryRan /\ lastOp.value.t = "Value") =>
        /\ QueryFetched(TRUE).res = "Ok"
        /\ Range(QueryFetched(TRUE).ids) =
                {r.entity : r \in RowsWithData(components, lastOp.value.c.name,
                                              Component_to_rusqlite(lastOp.value.c))}

\* find(Data(v)) returned one entity while another entity has Data with
\* another value, and a third row holds a marker
C14_Witness ==
    /\ QueryRan
    /\ lastOp.value.t = "Value"
    /\ lastOp.value.c.name = "Data"
    /\ Len(QueryFetched(TRUE).ids) = 1
    /\ \E r \in components : r.component = "Data" /\ r.entity \notin Range(QueryFetched(TRUE).ids)
    /\ \E r \in components : r.component \in {"A", "B"}

\* find(A) returned one entity while another entity holds the same (null)
\* data under the name B
C14_NullWitness ==
    /\ QueryRan
    /\ lastOp.value.t = "Value"
    /\ lastOp.value.c.name = "A"
    /\ Len(QueryFetched(TRUE).ids) = 1
    /\ \E r \in components : r.component = "B" /\ r.entity \notin Range(QueryFetched(TRUE).ids)

\* the entities whose Data value is in lo..hi
DataWithin(rows, lo, hi) ==
    {r.entity : r \in {x \in rows :
        /\ x.component = "Data"
        /\ Component_from_rusqlite("Data", x.data).c.val \in lo..hi}}

\* C15: a range predicate over the integer-valued component Data matches
\* an entity iff start <= value <= end with both bounds, iff value >= start
\* with only a start bound, iff value <= end with only an end bound;
\* values are compared as numbers (10 > 2), and a value equal to a bound is
\* matched.
C15_RangeInclusive ==
    /\ (QueryRan /\ lastOp.value.t = "Range") =>
            /\ QueryFetched(TRUE).res = "Ok"
            /\ Range(QueryFetched(TRUE).ids) =
                    DataWithin(components, lastOp.value.start.val, lastOp.value.end.val)
    /\ (QueryRan /\ lastOp.value.t = "RangeFrom") =>
            /\ QueryFetched(TRUE).res = "Ok"
            /\ \A r \in components :
                    r.component = "Data" =>
                        (r.entity \in Range(QueryFetched(TRUE).ids)
                            <=> Component_from_rusqlite("Data", r.data).c.val
                                    >= lastOp.value.start.val)
            /\ \A e \in Range(QueryFetched(TRUE).ids) : HasRow(components, e, "Data")
    /\ (QueryRan /\ lastOp.value.t = "RangeTo") =>
            /\ QueryFetched(TRUE).res = "Ok"
            /\ Range(QueryFetched(TRUE).ids) = DataWithin(components, 0, lastOp.value.end.val)

\* the range 2..10 matched an entity whose value is 2 and one whose value
\* is 10, and not one whose value is 1
C15_Witness ==
    /\ QueryRan
    /\ lastOp.value.t = "Range"
    /\ lastOp.value.start.val = 2
    /\ lastOp.value.end.val = 10
    /\ Len(QueryFetched(TRUE).ids) = 2
    /\ \E r \in components : r.component = "Data" /\ r.data = SqlText(<<"1">>)
    /\ \E r \in components : r.component = "Data" /\ r.data = SqlText(<<"1", "0">>)
    /\ \E r \in components : r.component = "Data" /\ r.data = SqlText(<<"2">>)

\* a query of Query<Entity, F, ()> ran
FilterQuery ==
    /\ lastOp.op = "query"
    /\ lastOp.data = [t |-> "Entity"]
    /\ lastOp.value = [t |-> "Unit"]

\* C17: in every store state and for every presence filter F,
\* e.matches::<F>() is true iff e is among the entities returned by a query
\* with filter F; it is false for an entity that has no component rows.
C17_MatchesIffQueried ==
    FilterQuery =>
        \A returned \in {QueryReturned} : \A e \in EntityIds :
            \A got \in {Entity_try_matches(components, e, lastOp.filter)} :
                /\ got.res = "Ok"
                /\ got.matches <=> e \in Range(returned.ids)
                /\ e \notin AllEntities(components) => ~got.matches

\* C17 holds for the filters that are not wide
C17_MatchesIffQueriedWhenNarrow ==
    (FilterQuery /\ lastOp.filter \notin WideFilters) =>
        \A returned \in {QueryReturned} : \A e \in EntityIds :
            \A got \in {Entity_try_matches(components, e, lastOp.filter)} :
                /\ got.res = "Ok"
                /\ got.matches <=> e \in Range(returned.ids)
                /\ e \notin AllEntities(components) => ~got.matches

\* an Or filter matched one entity and not another, and a third id has no
\* rows
C17_NarrowWitness ==
    /\ FilterQuery
    /\ lastOp.filter.t = "Or"
    /\ lastOp.filter \notin WideFilters
    /\ \E e1 \in AllEntities(components) : \E e2 \in AllEntities(components) :
            /\ Entity_try_matches(components, e1, lastOp.filter).matches
            /\ ~Entity_try_matches(components, e2, lastOp.filter).matches
    /\ AllEntities(components) # EntityIds

\* C17 for With<(..)> of WideArity - 1 components, on the entities its query
\* returned: violated
C17_MatchesAtWidthTen ==
    (FilterQuery /\ lastOp.filter = QF_WithT(WideNames(WideArity - 1))) =>
        \A returned \in {QueryReturned} :
            /\ returned.res = "Ok"
            /\ \A e \in Range(returned.ids) :
                    Entity_try_matches(components, e, lastOp.filter).res = "Ok"

(***************************************************************************)
(* Properties of the filter compiler (specification SpecCompile).          *)
(***************************************************************************)
\* how deep And and Or nest in an expression
RECURSIVE Depth(_)
Depth(expr) ==
    IF expr.k \in {"And", "Or"}
        THEN 1 + (IF expr.xs = <<>> THEN 0
                  ELSE LET ds == {Depth(expr.xs[i]) : i \in DOMAIN expr.xs}
                       IN  CHOOSE m \in ds : \A x \in ds : x <= m)
        ELSE 0

\* C13: for every filter expression that nests And and Or to any depth over
\* the leaves that carry placeholders, the compiled fragment's placeholder
\* list holds no two entries of the same name, so the uniqueness assertion
\* of combine_exprs never fails.
C13_PlaceholdersDistinct ==
    lastOp.op = "compile" =>
        \A fragment \in {Compiled} :
            /\ ~fragment.panicked
            /\ \A i \in DOMAIN fragment.placeholders : \A j \in DOMAIN fragment.placeholders :
                    fragment.placeholders[i].name = fragment.placeholders[j].name => i = j

\* an expression three deep over ranges and value conditions was compiled
\* to a fragment of at least seven placeholders
C13_Witness ==
    /\ lastOp.op = "compile"
    /\ Depth(lastOp.expr) >= 3
    /\ \E fragment \in {Compiled} : Len(fragment.placeholders) >= 7 /\ ~fragment.panicked

(***************************************************************************)
(* Properties of the storage codec (specification SpecCodec).              *)
(***************************************************************************)
\* the rows whose data does not decode as their component's type
Undecodable(rows) == {r \in rows : ~Component_from_rusqlite(r.component, r.data).ok}

\* C16: for each storage strategy (JSON, blob, null), decoding the encoding
\* of a value yields the value, so attach(e, v) followed by a read of the
\* component on e returns v; the null strategy encodes to null and its
\* decode rejects every stored value that is not null with a StorageError.
C16_CodecRoundTrip ==
    /\ \A cv \in CodecValues :
            Component_from_rusqlite(cv.name, Component_to_rusqlite(cv)) = [ok |-> TRUE, c |-> cv]
    /\ lastOp.op = "attach" =>
            Entity_try_component(components, lastOp.eid, lastOp.bundle[1].c.name)
                = [res |-> "Some", c |-> lastOp.bundle[1].c]
    /\ Component_to_rusqlite([name |-> "A", val |-> 0]) = SqlNull
    /\ \A r \in components :
            (r.component = "A" /\ r.data # SqlNull) =>
                Entity_try_component(components, r.entity, "A").res = "Err"

\* a blob value was attached over a row written raw, while a row of the
\* marker holds a value that is not null
C16_Witness ==
    /\ lastOp.op = "attach"
    /\ lastOp.bundle[1].c.name = "X"
    /\ \E r \in components : r.component = "A" /\ r.data # SqlNull
    /\ \E r \in components : r.component = "Data" /\ r.data = SqlText(<<"1", "0">>)

\* C19: on the fallible read paths (try_component, and iteration obtained
\* through try_iter) a stored value that cannot be decoded as the requested
\* component type surfaces as a StorageError for that row; the library
\* neither panics nor skips the row nor substitutes a default value.
C19_DecodeFailureIsStorageError ==
    /\ (/\ lastOp.op = "try_component"
        /\ \E r \in Undecodable(components) :
                r.entity = lastOp.eid /\ r.component = lastOp.c)
            => ComponentRead.res = "Err"
    /\ lastOp.op = "try_iter" =>
            \A got \in {Iterated} :
                /\ got.res # "Panic"
                /\ Len(got.items) =
                        Cardinality({r \in components \ Undecodable(components) :
                                        r.component = lastOp.c})

\* C19 holds on try_component
C19_TryComponentIsStorageError ==
    (/\ lastOp.op = "try_component"
     /\ \E r \in Undecodable(components) : r.entity = lastOp.eid /\ r.component = lastOp.c)
        => ComponentRead.res = "Err"

\* try_component read a row that does not decode
C19_TryComponentWitness ==
    /\ lastOp.op = "try_component"
    /\ \E r \in Undecodable(components) : r.entity = lastOp.eid /\ r.component = lastOp.c

(***************************************************************************)
(* Properties of the change log (specification SpecChanges).               *)
(***************************************************************************)
\* the records a step appended, when the log before it is a prefix of the
\* log after it
Appended == SubSeq(changes', Len(changes) + 1, Len(changes'))

\* the step attached the single component c to entity e
AttachedOne(e, c) ==
    /\ lastOp'.op \in {"attach", "attach_new"}
    /\ lastOp'.res = "Ok"
    /\ lastOp'.eid = e
    /\ Len(lastOp'.bundle) = 1
    /\ lastOp'.bundle[1].some
    /\ lastOp'.bundle[1].c.name = c

\* the step detached the single component c from entity e
DetachedOne(e, c) ==
    /\ lastOp'.op = "detach"
    /\ lastOp'.eid = e
    /\ lastOp'.names = <<c>>

LogGrowth ==
    /\ lastOp'.op \in {"attach", "attach_new", "detach", "destroy"} =>
            /\ Len(changes') >= Len(changes)
            /\ SubSeq(changes', 1, Len(changes)) = changes
    /\ tracking =>
        \A e \in EntityIds, c \in ComponentNames :
            /\ (AttachedOne(e, c) /\ ComponentsOf(components, e) = {}) =>
                    Appended = <<Change("create", e, ""), Change("attach", e, c)>>
            /\ (AttachedOne(e, c) /\ ComponentsOf(components, e) \notin {{}, {c}}
                    /\ c \notin ComponentsOf(components, e)) =>
                    Appended = <<Change("attach", e, c)>>
            /\ (DetachedOne(e, c) /\ ComponentsOf(components, e) = {c}) =>
                    Appended = <<Change("detach", e, c), Change("destroy", e, "")>>
            /\ (DetachedOne(e, c) /\ c \in ComponentsOf(components, e)
                    /\ ComponentsOf(components, e) # {c}) =>
                    Appended = <<Change("detach", e, c)>>

\* C18: with change tracking enabled, attaching a component to an entity
\* that has no rows appends Create(e) then Attach(e, c); attaching a further
\* component to an existing entity appends only Attach(e, c); detaching a
\* present component appends Detach(e, c), followed by Destroy(e) exactly
\* when that component was the entity's last; earlier records are never
\* altered or reordered.
C18_ChangeLogGrowth == [][LogGrowth]_vars

\* the log of tests::change_tracking after its second detach, short of its
\* first two records: the entity's last component was detached
C18_Witness ==
    /\ tracking
    /\ lastOp.op = "detach"
    /\ Len(changes) = MaxChanges
    /\ changes[MaxChanges].change = "destroy"
    /\ changes[MaxChanges - 1].change = "detach"
    /\ \E i \in 1..(MaxChanges - 2) : changes[i].change = "attach"

(***************************************************************************)
(* Properties of modification in place (specification SpecModify).         *)
(***************************************************************************)
ModifyStep ==
    /\ (lastOp'.op \in {"modify", "modify_new"} /\ ~lastOp'.f.ok) =>
            /\ lastOp'.res = "FnError"
            /\ components' = components
    /\ (lastOp'.op = "modify" /\ lastOp'.f.ok
            /\ ~HasRow(components, lastOp'.eid, lastOp'.c)) =>
            /\ lastOp'.res = "Ok"
            /\ Entity_try_component(components', lastOp'.eid, lastOp'.c) =
                    [res |-> "Some", c |-> ApplyClosure(lastOp'.f, Default(lastOp'.c))]
    /\ (lastOp'.op = "modify_new" /\ lastOp'.f.ok) =>
            /\ lastOp'.res = "Ok"
            /\ ~Entity_try_exists(components, lastOp'.eid)
            /\ Entity_try_component(components', lastOp'.eid, lastOp'.c) =
                    [res |-> "Some", c |-> ApplyClosure(lastOp'.f, Default(lastOp'.c))]

\* C20: if the closure passed to try_modify_component returns an error, the
\* call returns that error and writes nothing: the store is unchanged, the
\* component keeps its previous value or stays absent, and for a new entity
\* no entity is created.  If the closure succeeds on an entity lacking the
\* component, it is applied to the type's default value and the result is
\* attached.
C20_ModifyWritesNothingOnError == [][ModifyStep]_vars

\* a closure that changed the value and then failed ran on an entity whose
\* Data holds another value
C20_Witness ==
    /\ lastOp.op = "modify"
    /\ lastOp.res = "FnError"
    /\ lastOp.f.mut
    /\ lastOp.c = "Data"
    /\ \E r \in components :
            /\ r.entity = lastOp.eid /\ r.component = "Data"
            /\ r.data # Component_to_rusqlite([name |-> "Data", val |-> lastOp.f.val])

(***************************************************************************)
(* New entities: one id for a whole bundle                                 *)
(***************************************************************************)
\* the rows a bundle's present members leave under entity e
PresentNames(bundle) == {bundle[i].c.name : i \in {j \in DOMAIN bundle : bundle[j].some}}

AttachedToNew ==
    (lastOp'.op = "attach_new" /\ lastOp'.res = "Ok") =>
        /\ ~Entity_try_exists(components, lastOp'.eid)
        /\ components \subseteq components'
        /\ \A r \in components' \ components : r.entity = lastOp'.eid
        /\ {r.component : r \in components' \ components} = PresentNames(lastOp'.bundle)
        /\ \A i \in DOMAIN lastOp'.bundle :
                LastOf(lastOp'.bundle, i) =>
                    \E r \in components' :
                        /\ r.entity = lastOp'.eid
                        /\ r.component = lastOp'.bundle[i].c.name
                        /\ r.data = Component_to_rusqlite(lastOp'.bundle[i].c)

\* C21: attaching a multi-member bundle to a new entity allocates exactly
\* one id: every member with a present value is stored under the same newly
\* allocated entity id, members with an absent value are skipped, and no
\* row of a previously existing entity is changed.
C21_OneIdPerBundle == [][AttachedToNew]_vars

\* a bundle of two present members of different components went to one new
\* entity while another entity existed
C21_Witness ==
    /\ lastOp.op = "attach_new"
    /\ lastOp.res = "Ok"
    /\ Len(lastOp.bundle) = 2
    /\ lastOp.bundle[1].some /\ lastOp.bundle[2].some
    /\ lastOp.bundle[1].c.name # lastOp.bundle[2].c.name
    /\ Cardinality({r \in components : r.entity = lastOp.eid}) = 2
    /\ \E r \in components : r.entity # lastOp.eid

\* a bundle with one absent and one present member created an entity with
\* a single row
C21_AbsentWitness ==
    /\ lastOp.op = "attach_new"
    /\ lastOp.res = "Ok"
    /\ Len(lastOp.bundle) = 2
    /\ \E i \in 1..2 : ~lastOp.bundle[i].some
    /\ Cardinality({r \in components : r.entity = lastOp.eid}) = 1

\* C22: every auto-allocated entity id is at least 100 in every reachable
\* state, including states in which entities with caller-supplied ids below
\* 99 already exist.
C22_AutoIdAtLeastSeed ==
    (lastOp.op = "attach_new" /\ lastOp.res = "Ok") => lastOp.eid >= SeedEntityId

\* what the statement computes: the seed only when the table is empty
C22_AutoIdFromMaximum ==
    [][(lastOp'.op = "attach_new" /\ lastOp'.res = "Ok" /\ components # {}) =>
            lastOp'.eid = MaxOf({r.entity : r \in components}) + 1]_vars

\* a new entity got id 99 after the caller had created entity 98
C22_BelowSeedWitness ==
    /\ lastOp.op = "attach_new"
    /\ lastOp.res = "Ok"
    /\ lastOp.eid = SeedEntityId - 1
    /\ \E r \in components : r.entity = MinEntityId

(***************************************************************************)
(* The SQL text against the placeholder list (specification SpecCompile).  *)
(***************************************************************************)
\* the index after the parameter token that starts at i: "?" with digits or
\* with the name component, ":" as SQLite's tokenizer reads it
ParamEnd(s, i) ==
    IF TokenAt(s, i) = "?"
        THEN IF TokenAt(s, i + 1) = "component" THEN i + 2 ELSE DigitsEnd(s, i + 1)
        ELSE ScanVariable(s, i + 1, 0).next

\* the first index from i on that starts a parameter token, Len(s) + 1 if
\* there is none
NextParam(s, i) ==
    LET starts == {j \in i..Len(s) : s[j] \in {"?", ":"}} \cup {Len(s) + 1}
    IN  CHOOSE j \in starts : \A k \in starts : j <= k

\* the parameter tokens of a text
RECURSIVE TokensFrom(_, _, _)
TokensFrom(s, i, acc) ==
    LET p == NextParam(s, i)
        e == ParamEnd(s, p)
        out == acc \cup {SubSeq(s, p, e - 1)}
    IN  IF p > Len(s) THEN acc
        ELSE IF Cardinality(out) >= 0 /\ e > p THEN TokensFrom(s, e, out) ELSE out

\* the text a value is written as when it takes its parameter's place
Written(placeholders, name) ==
    IF \E j \in DOMAIN placeholders : placeholders[j].name = name
        THEN <<"<", Bound(placeholders, name).kind>> \o Bound(placeholders, name).v \o <<">">>
        ELSE <<"<unbound>">>

\* the text with every parameter token replaced by the value bound to it
RECURSIVE InlineFrom(_, _, _, _)
InlineFrom(s, placeholders, i, acc) ==
    LET p == NextParam(s, i)
        e == ParamEnd(s, p)
        out == acc \o SubSeq(s, i, p - 1) \o Written(placeholders, SubSeq(s, p, e - 1))
    IN  IF p > Len(s) THEN acc \o SubSeq(s, i, Len(s))
        ELSE IF Len(out) >= 0 /\ e > p THEN InlineFrom(s, placeholders, e, out) ELSE out

Inlined(fragment) == InlineFrom(fragment.sql, fragment.placeholders, 1, <<>>)

RECURSIVE JoinTexts(_, _, _, _)
JoinTexts(texts, via, i, acc) ==
    IF i > Len(texts) THEN acc
    ELSE LET out == acc \o <<via>> \o texts[i]
         IN  IF Len(out) >= 0 THEN JoinTexts(texts, via, i + 1, out) ELSE out

\* the condition an expression stands for, with each leaf's values in place
RECURSIVE Meaning(_)
Meaning(expr) ==
    IF expr.k \in {"And", "Or"}
        THEN IF expr.xs = <<>> THEN <<"true">>
             ELSE LET texts == [i \in DOMAIN expr.xs |-> Meaning(expr.xs[i])]
                  IN  <<"(">> \o JoinTexts(texts, IF expr.k = "And" THEN " and " ELSE " or ",
                                           2, texts[1]) \o <<")">>
        ELSE Inlined(where_clause(expr))

TextMatchesPlaceholders(expr, fragment) ==
    /\ ~fragment.panicked
    /\ TokensFrom(fragment.sql, 1, {}) =
            {fragment.placeholders[j].name : j \in DOMAIN fragment.placeholders}
    /\ Inlined(fragment) = Meaning(expr)

\* C25: in every compiled fragment, for any nesting depth and any number of
\* placeholders (ten or more inside one nested And/Or included), the
\* placeholder tokens occurring in the SQL text are exactly the names in the
\* placeholder list, each name occurs in the text and is bound to the value
\* of the leaf it came from.
C25_TextMatchesPlaceholders ==
    lastOp.op = "compile" =>
        \A fragment \in {Compiled} : TextMatchesPlaceholders(lastOp.expr, fragment)

\* the same for fragments of at most ten placeholders, where it holds
C25_TextMatchesPlaceholdersWhenNarrow ==
    lastOp.op = "compile" =>
        \A fragment \in {Compiled} :
            Len(fragment.placeholders) < WideArity =>
                TextMatchesPlaceholders(lastOp.expr, fragment)

\* a nested Or of more than ten placeholders was renamed by the And around
\* it, and the text holds a token that is no name of the list
C25_GarbledWitness ==
    /\ lastOp.op = "compile"
    /\ lastOp.expr.k = "And"
    /\ \E fragment \in {Compiled} :
            /\ Len(fragment.placeholders) > WideArity
            /\ \E t \in TokensFrom(fragment.sql, 1, {}) :
                    \A j \in DOMAIN fragment.placeholders : fragment.placeholders[j].name # t

\* an expression three deep of at least seven placeholders compiled to a
\* text whose tokens are the names of the list
C25_NarrowWitness ==
    /\ lastOp.op = "compile"
    /\ Depth(lastOp.expr) >= 3
    /\ \E fragment \in {Compiled} :
            /\ Len(fragment.placeholders) >= 7
            /\ Len(fragment.placeholders) < WideArity
            /\ TextMatchesPlaceholders(lastOp.expr, fragment)

(***************************************************************************)
(* Properties of the simplification pass (specification SpecSimplify).     *)
(***************************************************************************)
RECURSIVE HasNoneInOr(_)
HasNoneInOr(expr) ==
    /\ expr.k \in {"And", "Or"}
    /\ \/ expr.k = "Or" /\ \E i \in DOMAIN expr.xs : expr.xs[i].k = "None"
       \/ \E i \in DOMAIN expr.xs : HasNoneInOr(expr.xs[i])

\* C24: the simplification pass preserves meaning: for every filter
\* expression x and every store state, x.simplify() matches exactly the
\* same set of entities as x, for And lists and for Or lists alike,
\* including lists that contain None members or become empty.
C24_SimplifyPreservesMatches ==
    lastOp.op = "simplify" =>
        Matches(components, Simplified) = Matches(components, lastOp.expr)

\* the same for expressions without a None member in an Or list, where it
\* holds
C24_SimplifyPreservesWithoutNoneInOr ==
    (lastOp.op = "simplify" /\ ~HasNoneInOr(lastOp.expr)) =>
        Matches(components, Simplified) = Matches(components, lastOp.expr)

\* Or over None and a condition matched every entity before simplification
\* and fewer after it
C24_OrNoneWitness ==
    /\ lastOp.op = "simplify"
    /\ lastOp.expr.k = "Or"
    /\ \E i \in DOMAIN lastOp.expr.xs : lastOp.expr.xs[i].k = "None"
    /\ Matches(components, lastOp.expr).res = "Ok"
    /\ Matches(components, Simplified).res = "Ok"
    /\ Len(Matches(components, Simplified).ids) < Len(Matches(components, lastOp.expr).ids)

\* an And list lost a None member, another became empty, and the matches
\* stayed the same on a store with entities
C24_AndWitness ==
    /\ lastOp.op = "simplify"
    /\ lastOp.expr.k = "And"
    /\ Len(lastOp.expr.xs) = 2
    /\ lastOp.expr.xs[1] = FE_And(<<FE_None>>)
    /\ Simplified = FE_And(<<FE_And(<<>>), FE_WithComponent("A")>>)
    /\ Len(Matches(components, Simplified).ids) = 1
    /\ Cardinality(components) = MaxRows
    /\ Matches(components, Simplified) = Matches(components, lastOp.expr)

(***************************************************************************)
(* Properties of the schedule (specification SpecSchedule).                *)
(***************************************************************************)
\* the runs of a system in tick t, as positions of the log
RunsIn(op, system, t) ==
    {i \in DOMAIN op.log : op.log[i].system = system /\ op.log[i].tick = t}

Successes(op, system) ==
    {i \in DOMAIN op.log : op.log[i].system = system /\ op.log[i].ok}

\* the system returned Ok in a tick before t
SucceededBefore(op, system, t) ==
    \E i \in Successes(op, system) : op.log[i].tick < t

PositionOf(op, system) ==
    CHOOSE j \in DOMAIN op.schedule : op.schedule[j].system = system

\* tick t came to the system's turn: no system before it in the schedule
\* returned Err in that tick
Reached(op, system, t) ==
    ~\E i \in DOMAIN op.log :
        /\ op.log[i].tick = t
        /\ ~op.log[i].ok
        /\ PositionOf(op, op.log[i].system) < PositionOf(op, system)

OnceSystems(op) ==
    {op.schedule[j].system : j \in {k \in DOMAIN op.schedule : op.schedule[k].mode.kind = "Once"}}

FinishedTicks(op) == 1..(IF op.pc = 0 THEN op.tick ELSE op.tick - 1)

\* the LastRun record is there iff the system has returned Ok
LastRunIffSucceeded ==
    \A j \in DOMAIN lastOp.schedule :
        LastRunOf(components, lastOp.schedule[j].system).res = "Some"
            <=> Successes(lastOp, lastOp.schedule[j].system) # {}

\* C26: a system scheduled with mode Once is run by Schedule::tick exactly
\* in the ticks in which it has no LastRun record; LastRun is recorded only
\* after the system returns success, so over any number of ticks it
\* completes successfully at most once and is retried on each tick until it
\* does.
C26_OnceRunsWhileNoLastRun ==
    /\ LastRunIffSucceeded
    /\ \A system \in OnceSystems(lastOp) :
        /\ Cardinality(Successes(lastOp, system)) <= 1
        /\ \A t \in FinishedTicks(lastOp) :
                RunsIn(lastOp, system, t) # {} <=> ~SucceededBefore(lastOp, system, t)

\* C26, amended: the same for the ticks that come to the system's turn
C26_OnceRunsWhenReached ==
    /\ LastRunIffSucceeded
    /\ \A system \in OnceSystems(lastOp) :
        /\ Cardinality(Successes(lastOp, system)) <= 1
        /\ \A t \in FinishedTicks(lastOp) :
                /\ Cardinality(RunsIn(lastOp, system, t)) <= 1
                /\ RunsIn(lastOp, system, t) # {}
                        <=> (~SucceededBefore(lastOp, system, t) /\ Reached(lastOp, system, t))

\* a Once system returned Err in the first tick, was run again and returned
\* Ok in the second, and was not run in the third
C26_Witness ==
    /\ lastOp.pc = 0
    /\ lastOp.tick = 3
    /\ \E system \in OnceSystems(lastOp) :
        /\ \E i \in RunsIn(lastOp, system, 1) : ~lastOp.log[i].ok
        /\ \E i \in RunsIn(lastOp, system, 2) : lastOp.log[i].ok
        /\ RunsIn(lastOp, system, 3) = {}
        /\ Reached(lastOp, system, 3)

AfterEntries(op) == {j \in DOMAIN op.schedule : op.schedule[j].mode.kind = "After"}

\* the turn of an After system in a tick: it is run iff its predecessor has
\* a LastRun and it has none itself or an earlier one
AfterTurn ==
    (lastOp.pc \in AfterEntries(lastOp)) =>
        LET system == lastOp.schedule[lastOp.pc].system
            p == lastOp.schedule[lastOp.pc].mode.p
        IN  (Len(lastOp'.log) > Len(lastOp.log)) <=>
                /\ LastRunOf(components, p).res = "Some"
                /\ \/ LastRunOf(components, system).res = "None"
                   \/ LastRunOf(components, p).c.val > LastRunOf(components, system).c.val

\* an After system never runs before its predecessor has returned Ok
NeverBeforePredecessor(op) ==
    \A j \in AfterEntries(op) :
        \A i \in DOMAIN op.log :
            op.log[i].system = op.schedule[j].system =>
                \E k \in 1..(i - 1) :
                    op.log[k].system = op.schedule[j].mode.p /\ op.log[k].ok

\* in every finished tick an After system whose predecessor stands before
\* it in the schedule ran as often as the predecessor
OncePerRunOfPredecessor(op) ==
    \A j \in AfterEntries(op) :
        PositionOf(op, op.schedule[j].mode.p) < j =>
            \A t \in FinishedTicks(op) :
                Cardinality(RunsIn(op, op.schedule[j].system, t)) =
                    Cardinality(RunsIn(op, op.schedule[j].mode.p, t))

NoErr(op) == \A i \in DOMAIN op.log : op.log[i].ok

C27_RetryWitness ==
    /\ lastOp.pc = 0
    /\ \E j \in AfterEntries(lastOp) :
        /\ Cardinality({i \in DOMAIN lastOp.log :
                            lastOp.log[i].system = lastOp.schedule[j].mode.p}) = 1
        /\ Cardinality({i \in DOMAIN lastOp.log :
                            lastOp.log[i].system = lastOp.schedule[j].system}) = 2

(***************************************************************************)
(* Properties of the prompt loop (specification SpecRepl).                 *)
(***************************************************************************)
\* the command of the line last read is unknown, or its SQL is rejected
FailedCommand(read) ==
    /\ read.kind = "Line"
    /\ read.line # <<>>
    /\ \/ read.line[1] \notin Range(COMMANDS)
       \/ read.line[1] = ".sql" /\ Sqlite_run(Tail(read.line), read.prepare).res = "Err"

\* C28: in the interactive prompt, a command that fails (an unknown
\* command, or a .sql command whose SQL is rejected by the engine) is
\* reported and the prompt loop continues with the next line; only
\* end-of-input terminates the session, and it terminates it cleanly.
C28_FailedCommandContinues ==
    (lastOp.op = "repl" /\ lastOp.log # <<>>) =>
        LET last == lastOp.log[Len(lastOp.log)]
        IN  /\ FailedCommand(last.read) =>
                    (lastOp.res = "Running" /\ last.printed # <<>>)
            /\ lastOp.res # "Running" => (last.read.kind = "Eof" /\ lastOp.res = "Ok")

\* what holds: an unknown command is reported and the loop goes on, and
\* end of input ends the session with Ok
C28_UnknownCommandContinues ==
    (lastOp.op = "repl" /\ lastOp.log # <<>>) =>
        LET last == lastOp.log[Len(lastOp.log)]
        IN  /\ (last.read.kind = "Line" /\ last.read.line # <<>>
                    /\ last.read.line[1] \notin Range(COMMANDS)) =>
                        (lastOp.res = "Running" /\ last.printed # <<>>)
            /\ last.read.kind = "Eof" => lastOp.res = "Ok"

\* a .sql line with rejected SQL ended the session with an error after an
\* unknown command had been reported
C28_SqlErrorWitness ==
    /\ lastOp.op = "repl"
    /\ Len(lastOp.log) = 2
    /\ lastOp.res = "Err"
    /\ lastOp.log[1].read.line = <<".help">>
    /\ lastOp.log[2].read.line = <<".sql", "selec">>

(***************************************************************************)
(* Properties of concurrent modification (specification SpecRace).         *)
(***************************************************************************)
AllDone == \A w \in Writers : lastOp.writers[w].pc = "done"

Stored == Entity_try_component(components, lastOp.eid, lastOp.c)

\* the values the calls leave when they run one after the other, in any
\* order: every increment counts, on top of the value in the store before
\* the calls or, for those after the attach, on top of the attached one
SerialOutcomes ==
    IF lastOp.log = <<>>
        THEN LET got == Entity_try_component(
                            Entity_try_attach({}, lastOp.eid, lastOp.bundle,
                                              [i \in DOMAIN lastOp.bundle |-> 0]),
                            lastOp.eid, lastOp.c)
             IN  {(IF got.res = "Some" THEN got.c.val ELSE 0) + MaxWriters}
        ELSE {lastOp.log[1].val + k : k \in 0..MaxWriters}

\* C29: two modify_component calls on the same (entity, component) whose
\* read and write steps interleave with each other (or with an attach of
\* that component by another writer) both take effect: the finally stored
\* value reflects every modification, none is lost.
C29_NoLostUpdate ==
    (lastOp.op = "modify" /\ lastOp.writers # <<>> /\ AllDone) =>
        /\ Stored.res = "Some"
        /\ Stored.c.val \in SerialOutcomes

\* two writers read the absent component one after the other, and both
\* wrote 1
C29_LostUpdateWitness ==
    /\ lastOp.op = "modify"
    /\ lastOp.writers # <<>>
    /\ AllDone
    /\ lastOp.log = <<>>
    /\ \A w \in Writers : lastOp.writers[w].local = Default("Data")
    /\ Stored = [res |-> "Some", c |-> [name |-> "Data", val |-> 1]]

(***************************************************************************)
(* Properties of queries being consumed and of reads (specification        *)
(* SpecIter).                                                              *)
(***************************************************************************)
\* the ids visited so far
\* the ids the calls of next() visited so far
Visited(ids) == [i \in DOMAIN lastOp.log |-> Visit(ids, i).id]

\* C23: the sequence of entity ids a query visits is fixed when the query
\* is executed: attach, detach or destroy operations performed while the
\* result sequence is being consumed neither add ids to nor remove ids from
\* the sequence; only the decoding of each visited id reads the store at
\* consumption time.
C23_VisitedFixedAtExecution ==
    lastOp.op = "iter" =>
        \A found \in {Collected} :
            /\ found.res = "Ok"
            \* what is visited is the beginning of what the statement found
            \* on the table it ran on, whatever the table has become
            /\ \A i \in DOMAIN lastOp.log :
                    /\ i <= Len(found.ids) => Visited(found.ids)[i] = found.ids[i]
                    /\ i > Len(found.ids) => Visited(found.ids)[i] = 0
            \* an id is decoded from the table as it is when it is visited
            /\ \A i \in DOMAIN lastOp.log :
                    i <= Len(found.ids) =>
                        Visit(found.ids, i).got =
                            QueryData_from_entity(lastOp.log[i], found.ids[i], lastOp.data)

\* the second id of the sequence was visited after its entity had been
\* destroyed
C23_Witness ==
    /\ lastOp.op = "iter"
    /\ Len(lastOp.log) = 2
    /\ Len(Collected.ids) = 2
    /\ ~Entity_try_exists(lastOp.log[2], Collected.ids[2])
    /\ Visited(Collected.ids) = Collected.ids

\* an entity that came to match the query after it was executed was not
\* visited
C23_CreatedWitness ==
    /\ lastOp.op = "iter"
    /\ Len(lastOp.log) = 2
    /\ Len(Collected.ids) = 1
    /\ Len(Query_fetch(lastOp.log[2], lastOp.data, lastOp.filter, QF_Unit, TRUE).ids) = 2
    /\ Visited(Collected.ids) = <<Collected.ids[1], 0>>

\* an id fetched for its Data was visited after Data had been detached from
\* it, and decoded to None
C23_DecodeWitness ==
    /\ lastOp.op = "iter"
    /\ lastOp.data = QF_Comp("Data")
    /\ Len(lastOp.log) = 1
    /\ Len(Collected.ids) >= 1
    /\ Visit(Collected.ids, 1).got.res = "None"

\* a read, or a step of running or consuming a query
ReadStep ==
    \/ lastOp'.op \in {"exists", "has", "component", "component_names", "matches"}
    \/ lastOp.op = "none" /\ lastOp'.op = "iter"
    \/ lastOp.op = "iter" /\ Len(lastOp'.log) > Len(lastOp.log)

\* C30: read operations (exists, has, component, component_names, matches,
\* and executing or iterating any query) leave the components table
\* unchanged, so stopping the consumption of a query's results at any point
\* leaves no partially applied effect.
C30_ReadsLeaveTable == [][ReadStep => components' = components]_vars

\* a query's results were consumed halfway on a store of two entities
C30_Witness ==
    /\ lastOp.op = "iter"
    /\ Len(lastOp.log) = 1
    /\ Len(Collected.ids) = 2
    /\ Cardinality(components) = MaxRows

\* each of the reads was made on an entity that has a component
C30_ReadWitness ==
    /\ \/ lastOp.op \in {"exists", "has"} /\ lastOp.res = "true"
       \/ lastOp.op = "matches" /\ MatchesRead.matches
    /\ Entity_try_exists(components, lastOp.eid)

====
